---- MODULE Spec2Model ----
(***************************************************************************)
(* Transaction totals, tax split, ageing buckets, the status badge and the  *)
(* POST/GET/PUT /transactions handlers of the accounting application, over *)
(* the in-memory Record Store (MemStorage) with its BNPL limits.           *)
(*                                                                         *)
(* JavaScript values are tagged records [t, n, d]:                         *)
(*   t = "null"  : null                                                    *)
(*   t = "undef" : undefined (an absent field)                             *)
(*   t = "str"   : the decimal string of the integer n ("45000")           *)
(*   t = "bad"   : a non-numeric string ("abc")                            *)
(*   t = "num"   : the number n/d, d a power of two, in lowest terms       *)
(*   t = "nan"   : the number NaN                                          *)
(*   t = "date"  : a Date, n seconds on the model's time line              *)
(* Time is counted in seconds, so one day is SecondsPerDay.                *)
(***************************************************************************)
EXTENDS Integers, Sequences, FiniteSets, TLC

VARIABLES
    transactions,             \* MemStorage.transactions: id -> Transaction
    transactionItems,         \* MemStorage.transactionItems: id -> TransactionItem
    transactionIdCounter,     \* MemStorage.transactionIdCounter
    transactionItemIdCounter, \* MemStorage.transactionItemIdCounter
    now,                      \* the evaluation instant (new Date())
    requests,                 \* the HTTP requests in flight, per slot
    sent,                     \* the 201 responses of POST /transactions sent so far
    ageing,                   \* the last ageing report returned
    view,                     \* TransactionDetailView: its inputs and derived values
    service,                  \* TransactionService.calculateTotals: its input and result
    bnplLimits,               \* MemStorage.bnplLimits: id -> BnplLimit
    bnplLimitIdCounter,       \* MemStorage.bnplLimitIdCounter
    storeCall,                \* the last call made on the store directly, and its outcome
    badge,                    \* StatusBadge: its props and the status it displays
    openSummary               \* the last open receivables or payables summary returned

vars == <<transactions, transactionItems, transactionIdCounter,
          transactionItemIdCounter, now, requests, sent, ageing, view, service,
          bnplLimits, bnplLimitIdCounter, storeCall, badge, openSummary>>

storeVars == <<transactions, transactionItems, transactionIdCounter,
               transactionItemIdCounter>>

bnplVars == <<bnplLimits, bnplLimitIdCounter>>

-----------------------------------------------------------------------------
(* Bounds of the model *)

MaxItems == 2

MaxPosts == 2

MaxViewItems == 2

-----------------------------------------------------------------------------
(* JavaScript values *)

Null == [t |-> "null", n |-> 0, d |-> 1]

Undef == [t |-> "undef", n |-> 0, d |-> 1]

Str(k) == [t |-> "str", n |-> k, d |-> 1]

Bad == [t |-> "bad", n |-> 0, d |-> 1]

Num(k) == [t |-> "num", n |-> k, d |-> 1]

NaN == [t |-> "nan", n |-> 0, d |-> 1]

Date(s) == [t |-> "date", n |-> s, d |-> 1]

RECURSIVE Norm(_, _)
Norm(k, den) ==
    IF den > 1 /\ k % 2 = 0 THEN Norm(k \div 2, den \div 2)
    ELSE [t |-> "num", n |-> k, d |-> den]

\* JavaScript truthiness
Truthy(x) ==
    CASE x.t = "null"  -> FALSE
      [] x.t = "undef" -> FALSE
      [] x.t = "str"   -> TRUE
      [] x.t = "bad"   -> TRUE
      [] x.t = "num"   -> x.n # 0
      [] x.t = "nan"   -> FALSE
      [] x.t = "date"  -> TRUE

\* x || y
JsOr(x, y) == IF Truthy(x) THEN x ELSE y

\* Number(x)
ToNumber(x) ==
    CASE x.t = "null"  -> Num(0)
      [] x.t = "undef" -> NaN
      [] x.t = "str"   -> Num(x.n)
      [] x.t = "bad"   -> NaN
      [] x.t = "num"   -> x
      [] x.t = "nan"   -> NaN
      [] x.t = "date"  -> Num(x.n)

\* a + b on numbers
JsAdd(a, b) ==
    IF a.t = "nan" \/ b.t = "nan" THEN NaN
    ELSE Norm(a.n * b.d + b.n * a.d, a.d * b.d)

\* a / 2 on numbers
JsHalf(a) == IF a.t = "nan" THEN NaN ELSE Norm(a.n, a.d * 2)

\* a === b on numbers: NaN equals nothing, itself included
JsStrictEq(a, b) == a.t = "num" /\ b.t = "num" /\ a = b

\* SameValueZero, the equality of Set: NaN equals NaN
SameValueZero(a, b) == a = b

\* Number(x || 0)
NumberOrZero(x) == ToNumber(JsOr(x, Num(0)))

\* Number(x) || 0
NumberElseZero(x) == JsOr(ToNumber(x), Num(0))

-----------------------------------------------------------------------------
(* Sequence helpers *)

\* Array.from(map.values()): the records in insertion order, which is id order
RECURSIVE MapValuesFrom(_, _, _)
MapValuesFrom(m, i, last) ==
    IF i > last THEN <<>>
    ELSE IF i \in DOMAIN m THEN <<m[i]>> \o MapValuesFrom(m, i + 1, last)
         ELSE MapValuesFrom(m, i + 1, last)

MaxKey(m) == IF DOMAIN m = {} THEN 0 ELSE CHOOSE k \in DOMAIN m : \A j \in DOMAIN m : j <= k

MapValues(m) == MapValuesFrom(m, 1, MaxKey(m))

\* array.reduce((sum, x) => sum + x, 0) over an array of numbers
RECURSIVE ReduceAdd(_, _)
ReduceAdd(s, acc) ==
    IF s = <<>> THEN acc ELSE ReduceAdd(Tail(s), JsAdd(acc, Head(s)))

\* all sequences over S of length at most k
SeqsUpTo(S, k) == UNION {[1..m -> S] : m \in 0..k}

-----------------------------------------------------------------------------
(* Time *)

SecondsPerDay == 86400

Days(k) == k * SecondsPerDay

\* the instant the store is constructed and the reports are evaluated
Now0 == Days(100)

-----------------------------------------------------------------------------
(* Record Store: MemStorage *)

\* a Transaction; createdAt is the instant the store was constructed unless set
Txn(id, userId, type, status, amount, balanceDue, dueDate) ==
    [id |-> id, userId |-> userId, transactionType |-> type, status |-> status,
     amount |-> amount, balanceDue |-> balanceDue, dueDate |-> dueDate,
     createdAt |-> Date(Now0)]

TxnItem(id, transactionId, amount, taxRate, taxAmount) ==
    [id |-> id, transactionId |-> transactionId, amount |-> amount,
     taxRate |-> taxRate, taxAmount |-> taxAmount]

\* initializeData: the demo transactions; currentDate is moved by each setDate
SeedTransactions ==
    <<Txn(1, 1, "sales_invoice", "pending", Str(42500), Str(42500), Date(Now0 + Days(28))),
      Txn(2, 1, "purchase_bill", "using_bnpl", Str(18750), Str(18750), Date(Now0 + Days(70))),
      Txn(3, 1, "receipt", "completed", Str(28600), Str(0), Null)>>

\* initializeData: the demo transaction items
SeedTransactionItems ==
    <<TxnItem(1, 1, Str(45000), Str(5), Str(2250)),
      TxnItem(2, 2, Str(35000), Str(5), Str(1750))>>

\* storage.getTransaction(id): the record, or undefined
NoTransaction == Txn(0, 0, "none", "none", Undef, Undef, Undef)

GetTransaction(id) ==
    IF id \in DOMAIN transactions THEN transactions[id] ELSE NoTransaction

\* mutant: the filter compares the item's own id
GetTransactionItemsByTransactionId_ByItemId(transactionId) ==
    SelectSeq(MapValues(transactionItems), LAMBDA item : item.id = transactionId)

\* storage.getTransactionItemsByTransactionId(transactionId)
GetTransactionItemsByTransactionId(transactionId) ==
    SelectSeq(MapValues(transactionItems), LAMBDA item : item.transactionId = transactionId)

\* mutant: the header is stored without the caller's amount and balanceDue
NewTransaction_NoAmounts(header) ==
    [Txn(transactionIdCounter, header.userId, header.transactionType, header.status,
         Undef, Undef, header.dueDate) EXCEPT !.createdAt = Date(now)]

\* storage.createTransaction(header): { id: counter++, ...header, createdAt }: an id
\* the header carries wins over the counter's
NewTransaction(header) ==
    [Txn(IF "id" \in DOMAIN header THEN header.id ELSE transactionIdCounter,
         header.userId, header.transactionType, header.status,
         header.amount, header.balanceDue, header.dueDate) EXCEPT !.createdAt = Date(now)]

\* storage.createTransactionItem(item): { ...item, id: counter++ }
NewTransactionItem(item) ==
    TxnItem(transactionItemIdCounter, item.transactionId, item.amount,
            item.taxRate, item.taxAmount)

\* storage.updateTransaction(id, { amount, balanceDue }): the merged record
MergeTotals(existing, amount, balanceDue) ==
    [existing EXCEPT !.amount = amount, !.balanceDue = balanceDue]

-----------------------------------------------------------------------------
(* TransactionService and the insert schemas (shared/schema) *)

Totals(subtotal, totalTax, grandTotal) ==
    [subtotal |-> subtotal, totalTax |-> totalTax, grandTotal |-> grandTotal]

NoTotals == Totals(Undef, Undef, Undef)

\* transactionService.calculateTotals(items): absent or malformed fields count as 0
CalculateTotals(items) ==
    LET subtotal == ReduceAdd([i \in DOMAIN items |-> NumberElseZero(items[i].amount)], Num(0))
        totalTax == ReduceAdd([i \in DOMAIN items |-> NumberElseZero(items[i].taxAmount)], Num(0))
    IN  Totals(subtotal, totalTax, JsAdd(subtotal, totalTax))

\* insertTransactionSchema.parse(transaction) succeeds
InsertTransactionSchemaOk(transaction) == transaction.schemaOk

\* transactionService.validateTransaction(transactionData) succeeds
ValidateTransactionOk(transaction) == transaction.serviceOk

\* insertTransactionItemSchema.parse(itemData) succeeds
InsertTransactionItemSchemaOk(item) == item.schemaOk

-----------------------------------------------------------------------------
(* Request bodies *)

HeaderInput(present, schemaOk, serviceOk, userId, type, status, amount, balanceDue, dueDate) ==
    [present |-> present, schemaOk |-> schemaOk, serviceOk |-> serviceOk,
     userId |-> userId, transactionType |-> type, status |-> status,
     amount |-> amount, balanceDue |-> balanceDue, dueDate |-> dueDate]

\* req.body.transaction is absent
MissingHeader == HeaderInput(FALSE, FALSE, FALSE, 0, "none", "none", Undef, Undef, Undef)

\* headers that pass the schema and the service: the caller's amount and balanceDue
\* differ from the totals of the items, or are absent
ValidHeaderInputs ==
    { HeaderInput(TRUE, TRUE, TRUE, 1, "sales_invoice", "pending",
                  Str(999), Str(0), Date(Now0 - Days(45))),
      HeaderInput(TRUE, TRUE, TRUE, 1, "sales_invoice", "pending",
                  Undef, Undef, Date(Now0 - Days(45))) }

\* headers the schema or the service refuses, and the absent header
InvalidHeaderInputs ==
    { HeaderInput(TRUE, FALSE, TRUE, 1, "sales_invoice", "pending", Str(999), Str(0), Null),
      HeaderInput(TRUE, TRUE, FALSE, 1, "sales_invoice", "pending", Str(999), Str(0), Null),
      MissingHeader }

\* one element of req.body.items; transactionId is what the caller put there (0: nothing)
ItemInput(schemaOk, transactionId, amount, taxRate, taxAmount) ==
    [schemaOk |-> schemaOk, transactionId |-> transactionId, amount |-> amount,
     taxRate |-> taxRate, taxAmount |-> taxAmount]

ItemInputs ==
    { ItemInput(TRUE, 1, Str(100), Str(18), Str(18)),
      ItemInput(TRUE, 0, Str(45000), Str(5), Str(2250)),
      ItemInput(FALSE, 0, Str(100), Str(18), Str(18)) }

\* the item lists submitted: no line item twice
ItemLists ==
    { l \in SeqsUpTo(ItemInputs, MaxItems) :
        \A i, j \in DOMAIN l : i # j => l[i] # l[j] }

\* req.body.items: absent, an array, or some other truthy value
ItemsInputs ==
    { [kind |-> "missing", list |-> <<>>], [kind |-> "object", list |-> <<>>] }
    \cup { [kind |-> "array", list |-> l] : l \in ItemLists }

Bodies ==
    { [transaction |-> h, items |-> i] : h \in ValidHeaderInputs, i \in ItemsInputs }
    \cup { [transaction |-> h, items |-> [kind |-> "array", list |-> <<>>]] :
             h \in InvalidHeaderInputs }

NoBody == [transaction |-> MissingHeader, items |-> [kind |-> "missing", list |-> <<>>]]

-----------------------------------------------------------------------------
(* Requests *)

Response(status, header, items, totals) ==
    [status |-> status, header |-> header, items |-> items, totals |-> totals]

NoResponse == Response(0, NoTransaction, <<>>, NoTotals)

Request(kind, pc, id, body, createdTransaction, createdItems, totals, response) ==
    [kind |-> kind, pc |-> pc, id |-> id, body |-> body,
     createdTransaction |-> createdTransaction, createdItems |-> createdItems,
     totals |-> totals, response |-> response]

IdleRequest == Request("none", "idle", 0, NoBody, NoTransaction, <<>>, NoTotals, NoResponse)

\* a slot is free when no handler is running in it
Free(r) ==
    requests[r].pc \in {"idle", "Finalized", "Rejected", "NotFound", "Responded", "Updated"}

\* mutant: the error is swallowed and nothing is answered
Reject_Swallowed(q) == q

\* the catch block, and the early return: res.status(400).json(...)
Reject(q) ==
    [q EXCEPT !.pc = "Rejected", !.body = NoBody,
              !.response = Response(400, NoTransaction, <<>>, NoTotals)]

\* the id the next createTransaction gives after construction
FirstTransactionId == Len(SeedTransactions) + 1

-----------------------------------------------------------------------------
(* POST /transactions: TransactionController.createTransaction.               *)
(* One action per stretch of the handler between two awaits.                  *)

\* lines 16-23: the body is taken apart and the header parsed
PostReceive(r, body) ==
    /\ Free(r)
    /\ transactionIdCounter < FirstTransactionId + MaxPosts
    /\ LET q == Request("POST", "Received", 0, body, NoTransaction, <<>>, NoTotals, NoResponse)
       IN  requests' = [requests EXCEPT ![r] =
               IF ~body.transaction.present \/ body.items.kind = "missing" THEN Reject(q)
               ELSE IF ~InsertTransactionSchemaOk(body.transaction) THEN Reject(q)
               ELSE q]
    /\ UNCHANGED <<storeVars, now, openSummary, bnplVars, storeCall, badge, sent, ageing, view, service>>

\* lines 23-25: validateTransaction has settled; storage.createTransaction
PostPersistHeader(r) ==
    /\ requests[r].kind = "POST" /\ requests[r].pc = "Received"
    /\ IF ~ValidateTransactionOk(requests[r].body.transaction)
       THEN /\ requests' = [requests EXCEPT ![r] = Reject(@)]
            /\ UNCHANGED storeVars
       ELSE LET created == NewTransaction(requests[r].body.transaction)
            IN  /\ transactions' = (created.id :> created) @@ transactions
                /\ transactionIdCounter' = transactionIdCounter + 1
                /\ requests' = [requests EXCEPT ![r].pc = "HeaderPersisted",
                                                ![r].createdTransaction = created]
                /\ UNCHANGED <<transactionItems, transactionItemIdCounter>>
    /\ UNCHANGED <<now, openSummary, bnplVars, storeCall, badge, sent, ageing, view, service>>

\* the items the loop of lines 28-37 goes through
LoopItems(q) == IF q.body.items.kind = "array" THEN q.body.items.list ELSE <<>>

\* mutant: the item is stamped with the id of the transaction created last
StampItem_LastCreated(item, createdTransaction) ==
    [item EXCEPT !.transactionId = transactionIdCounter - 1]

\* mutant: { transactionId: createdTransaction.id, ...item }, the caller's id wins
StampItem_CallerWins(item, createdTransaction) ==
    IF item.transactionId # 0 THEN item
    ELSE [item EXCEPT !.transactionId = createdTransaction.id]

\* lines 30-33: { ...item, transactionId: createdTransaction.id }
StampItem(item, createdTransaction) == [item EXCEPT !.transactionId = createdTransaction.id]

\* mutant: a failing item rolls the header and the items written so far back
PostPersistItem_RollsBack(r) ==
    /\ requests[r].kind = "POST" /\ requests[r].pc = "HeaderPersisted"
    /\ Len(requests[r].createdItems) < Len(LoopItems(requests[r]))
    /\ LET q == requests[r]
           itemData == StampItem(LoopItems(q)[Len(q.createdItems) + 1], q.createdTransaction)
       IN  IF ~InsertTransactionItemSchemaOk(itemData)
           THEN /\ requests' = [requests EXCEPT ![r] = Reject(@)]
                /\ transactions' = [id \in DOMAIN transactions \ {q.createdTransaction.id} |->
                                       transactions[id]]
                /\ transactionItems' =
                       [id \in {i \in DOMAIN transactionItems :
                                   transactionItems[i].transactionId # q.createdTransaction.id} |->
                           transactionItems[id]]
                /\ UNCHANGED <<transactionIdCounter, transactionItemIdCounter>>
           ELSE LET createdItem == NewTransactionItem(itemData)
                IN  /\ transactionItems' = (createdItem.id :> createdItem) @@ transactionItems
                    /\ transactionItemIdCounter' = transactionItemIdCounter + 1
                    /\ requests' = [requests EXCEPT
                           ![r].createdItems = Append(@, createdItem)]
                    /\ UNCHANGED <<transactions, transactionIdCounter>>
    /\ UNCHANGED <<now, openSummary, bnplVars, storeCall, badge, sent, ageing, view, service>>

\* lines 29-35: the next item is stamped, parsed and written
PostPersistItem(r) ==
    /\ requests[r].kind = "POST" /\ requests[r].pc = "HeaderPersisted"
    /\ Len(requests[r].createdItems) < Len(LoopItems(requests[r]))
    /\ LET q == requests[r]
           itemData == StampItem(LoopItems(q)[Len(q.createdItems) + 1], q.createdTransaction)
       IN  IF ~InsertTransactionItemSchemaOk(itemData)
           THEN /\ requests' = [requests EXCEPT ![r] = Reject(@)]
                /\ UNCHANGED storeVars
           ELSE LET createdItem == NewTransactionItem(itemData)
                IN  /\ transactionItems' = (createdItem.id :> createdItem) @@ transactionItems
                    /\ transactionItemIdCounter' = transactionItemIdCounter + 1
                    /\ requests' = [requests EXCEPT
                           ![r].createdItems = Append(@, createdItem)]
                    /\ UNCHANGED <<transactions, transactionIdCounter>>
    /\ UNCHANGED <<now, openSummary, bnplVars, storeCall, badge, sent, ageing, view, service>>

\* line 39: the loop is over; calculateTotals(createdItems)
PostCalculateTotals(r) ==
    /\ requests[r].kind = "POST" /\ requests[r].pc = "HeaderPersisted"
    /\ Len(requests[r].createdItems) = Len(LoopItems(requests[r]))
    /\ requests' = [requests EXCEPT ![r].pc = "ItemsPersisted",
                                    ![r].totals = CalculateTotals(requests[r].createdItems)]
    /\ UNCHANGED <<storeVars, now, openSummary, bnplVars, storeCall, badge, sent, ageing, view, service>>

\* mutant: the patch sets amount only
PatchedHeader_AmountOnly(existing, totals) ==
    MergeTotals(existing, totals.grandTotal, existing.balanceDue)

\* lines 40-43: the record updateTransaction stores for the new header
PatchedHeader(existing, totals) ==
    MergeTotals(existing, totals.grandTotal, totals.grandTotal)

\* lines 40-43: storage.updateTransaction(createdTransaction.id, { amount, balanceDue })
PostPatchHeader(r) ==
    /\ requests[r].kind = "POST" /\ requests[r].pc = "ItemsPersisted"
    /\ LET id == requests[r].createdTransaction.id
       IN  IF id \notin DOMAIN transactions
           THEN /\ requests' = [requests EXCEPT ![r] = Reject(@)]
                /\ UNCHANGED transactions
           ELSE /\ transactions' = [transactions EXCEPT
                       ![id] = PatchedHeader(@, requests[r].totals)]
                /\ requests' = [requests EXCEPT ![r].pc = "Patched"]
    /\ UNCHANGED <<transactionItems, transactionIdCounter, transactionItemIdCounter,
                   now, openSummary, bnplVars, storeCall, badge, sent, ageing, view, service>>

\* mutant: the response carries the header as patched
PostRespond_PatchedHeader(r) ==
    /\ requests[r].kind = "POST" /\ requests[r].pc = "Patched"
    /\ LET q == requests[r]
           response == Response(201, transactions[q.createdTransaction.id],
                                q.createdItems, q.totals)
       IN  /\ requests' = [requests EXCEPT ![r].pc = "Finalized", ![r].response = response]
           /\ sent' = sent \cup {[id |-> q.createdTransaction.id,
                                  submitted |-> LoopItems(q),
                                  response |-> response]}
    /\ UNCHANGED <<storeVars, now, openSummary, bnplVars, storeCall, badge, ageing, view, service>>

\* lines 45-49: res.status(201).json({ ...createdTransaction, items, totals })
PostRespond(r) ==
    /\ requests[r].kind = "POST" /\ requests[r].pc = "Patched"
    /\ LET q == requests[r]
           response == Response(201, q.createdTransaction, q.createdItems, q.totals)
       IN  /\ requests' = [requests EXCEPT ![r].pc = "Finalized", ![r].response = response]
           /\ sent' = sent \cup {[id |-> q.createdTransaction.id,
                                  submitted |-> LoopItems(q),
                                  response |-> response]}
    /\ UNCHANGED <<storeVars, now, openSummary, bnplVars, storeCall, badge, ageing, view, service>>

-----------------------------------------------------------------------------
(* GET /transactions/:id: TransactionController.getTransactionById *)

\* lines 61-62: storage.getTransaction(transactionId)
GetBegin(r, id) ==
    /\ Free(r)
    /\ requests' = [requests EXCEPT ![r] =
           Request("GET", "GetHeader", id, NoBody, GetTransaction(id), <<>>,
                   NoTotals, NoResponse)]
    /\ UNCHANGED <<storeVars, now, openSummary, bnplVars, storeCall, badge, sent, ageing, view, service>>

\* lines 64-68: 404, or storage.getTransactionItemsByTransactionId(transactionId)
GetItems(r) ==
    /\ requests[r].kind = "GET" /\ requests[r].pc = "GetHeader"
    /\ LET q == requests[r]
       IN  requests' = [requests EXCEPT ![r] =
               IF q.createdTransaction = NoTransaction
               THEN [q EXCEPT !.pc = "NotFound",
                              !.response = Response(404, NoTransaction, <<>>, NoTotals)]
               ELSE [q EXCEPT !.pc = "GetItems",
                              !.createdItems = GetTransactionItemsByTransactionId(q.id)]]
    /\ UNCHANGED <<storeVars, now, openSummary, bnplVars, storeCall, badge, sent, ageing, view, service>>

\* line 69: the items have arrived; calculateTotals(items) is called and awaited
GetCalculateTotals(r) ==
    /\ requests[r].kind = "GET" /\ requests[r].pc = "GetItems"
    /\ requests' = [requests EXCEPT ![r].pc = "GetTotals",
                                    ![r].totals = CalculateTotals(requests[r].createdItems)]
    /\ UNCHANGED <<storeVars, now, openSummary, bnplVars, storeCall, badge, sent, ageing, view, service>>

\* lines 71-75: res.json({ ...transaction, items, totals })
GetRespond(r) ==
    /\ requests[r].kind = "GET" /\ requests[r].pc = "GetTotals"
    /\ LET q == requests[r]
       IN  requests' = [requests EXCEPT ![r].pc = "Responded",
               ![r].response = Response(200, q.createdTransaction, q.createdItems, q.totals)]
    /\ UNCHANGED <<storeVars, now, openSummary, bnplVars, storeCall, badge, sent, ageing, view, service>>

-----------------------------------------------------------------------------
(* GET /transactions: TransactionController.getTransactions *)

\* lines 84-102: MemStorage has no method getTransactions, so the call of line 94
\* throws inside the try block and the catch block answers 400; nothing is read or
\* written
GetTransactions(r) ==
    /\ Free(r)
    /\ requests' = [requests EXCEPT ![r] =
           Reject(Request("LIST", "Received", 0, NoBody, NoTransaction, <<>>,
                          NoTotals, NoResponse))]
    /\ UNCHANGED <<storeVars, now, openSummary, bnplVars, storeCall, badge, sent, ageing, view, service>>

-----------------------------------------------------------------------------
(* TransactionDetailView: totalTaxAmount and calculateGstBreakup *)

Party(present, state) == [present |-> present, state |-> state]

\* parties?.find(...) found nothing
NoParty == Party(FALSE, "undefined")

SameState == "Same State as User"

GstGroup(rate, taxableAmount, igst, cgst, sgst, total) ==
    [rate |-> rate, taxableAmount |-> taxableAmount, igst |-> igst,
     cgst |-> cgst, sgst |-> sgst, total |-> total]

\* mutant: the tax of every item is added, whatever its field
TotalTaxAmount_SumsAmount(loaded, items) ==
    IF ~loaded THEN Num(0)
    ELSE JsOr(ReduceAdd([i \in DOMAIN items |-> NumberOrZero(items[i].amount)], Num(0)),
              Num(0))

\* lines 108-109: transactionItems?.reduce((sum, item) => sum + Number(item.taxAmount || 0), 0) || 0
TotalTaxAmount(loaded, items) ==
    IF ~loaded THEN Num(0)
    ELSE JsOr(ReduceAdd([i \in DOMAIN items |-> NumberOrZero(items[i].taxAmount)], Num(0)),
              Num(0))

\* line 114: [...new Set(items.map(item => Number(item.taxRate || 0)))]
RECURSIVE DistinctValues(_, _)
DistinctValues(s, seen) ==
    IF s = <<>> THEN seen
    ELSE IF \E i \in DOMAIN seen : SameValueZero(seen[i], Head(s))
         THEN DistinctValues(Tail(s), seen)
         ELSE DistinctValues(Tail(s), Append(seen, Head(s)))

\* mutant: the rates are not made distinct
GstRates_NoDedup(items) == [i \in DOMAIN items |-> NumberOrZero(items[i].taxRate)]

GstRates(items) == DistinctValues([i \in DOMAIN items |-> NumberOrZero(items[i].taxRate)], <<>>)

\* mutant: the comparison with the sentinel is turned around
IsIGST_Inverted(party) == party.present /\ party.state = SameState

\* line 120: party?.state !== 'Same State as User'
IsIGST(party) == ~(party.present /\ party.state = SameState)

\* mutant: the taxable amount is taken over all the items
GstGroupFor_AllItems(rate, items, party) ==
    LET itemsWithRate ==
            SelectSeq(items, LAMBDA item : JsStrictEq(NumberOrZero(item.taxRate), rate))
        taxableAmount ==
            ReduceAdd([i \in DOMAIN items |-> NumberElseZero(items[i].amount)], Num(0))
        taxAmount ==
            ReduceAdd([i \in DOMAIN itemsWithRate |-> NumberElseZero(itemsWithRate[i].taxAmount)], Num(0))
    IN  GstGroup(rate, taxableAmount,
                 IF IsIGST(party) THEN taxAmount ELSE Num(0),
                 IF ~IsIGST(party) THEN JsHalf(taxAmount) ELSE Num(0),
                 IF ~IsIGST(party) THEN JsHalf(taxAmount) ELSE Num(0),
                 taxAmount)

\* lines 116-130: the group of one rate
GstGroupFor(rate, items, party) ==
    LET itemsWithRate ==
            SelectSeq(items, LAMBDA item : JsStrictEq(NumberOrZero(item.taxRate), rate))
        taxableAmount ==
            ReduceAdd([i \in DOMAIN itemsWithRate |-> NumberElseZero(itemsWithRate[i].amount)], Num(0))
        taxAmount ==
            ReduceAdd([i \in DOMAIN itemsWithRate |-> NumberElseZero(itemsWithRate[i].taxAmount)], Num(0))
    IN  GstGroup(rate, taxableAmount,
                 IF IsIGST(party) THEN taxAmount ELSE Num(0),
                 IF ~IsIGST(party) THEN JsHalf(taxAmount) ELSE Num(0),
                 IF ~IsIGST(party) THEN JsHalf(taxAmount) ELSE Num(0),
                 taxAmount)

\* lines 111-131: calculateGstBreakup(); null (here no group) while the items load
CalculateGstBreakup(loaded, items, party) ==
    IF ~loaded THEN <<>>
    ELSE [i \in DOMAIN GstRates(items) |-> GstGroupFor(GstRates(items)[i], items, party)]

View(rendered, loaded, items, party, totalTaxAmount, gstBreakup) ==
    [rendered |-> rendered, loaded |-> loaded, items |-> items, party |-> party,
     totalTaxAmount |-> totalTaxAmount, gstBreakup |-> gstBreakup]

NoView == View(FALSE, FALSE, <<>>, NoParty, Undef, <<>>)

\* the component renders: lines 105-133
ViewRender ==
    /\ ~view.rendered
    /\ view' = [view EXCEPT
           !.rendered = TRUE,
           !.totalTaxAmount = TotalTaxAmount(view.loaded, view.items),
           !.gstBreakup = CalculateGstBreakup(view.loaded, view.items, view.party)]
    /\ UNCHANGED <<storeVars, now, openSummary, bnplVars, storeCall, badge, requests, sent, ageing, service>>

NoService == [called |-> FALSE, items |-> <<>>, totals |-> NoTotals]

\* transactionService.calculateTotals(items) is called
ServiceCalculateTotals ==
    /\ ~service.called
    /\ service' = [service EXCEPT !.called = TRUE, !.totals = CalculateTotals(service.items)]
    /\ UNCHANGED <<storeVars, now, openSummary, bnplVars, storeCall, badge, requests, sent, ageing, view>>

\* the items a view or the service is given
ViewItemValues ==
    { <<Str(45000), Str(5), Str(2250)>>,
      <<Str(100), Str(18), Str(9)>>,
      <<Str(100), Str(5), Str(18)>>,
      <<Str(200), Null, Undef>>,
      <<Undef, Str(0), Str(6)>>,
      <<Bad, Str(5), Str(10)>>,
      <<Str(100), Bad, Str(18)>>,
      <<Str(100), Str(18), Bad>> }

ViewItemLists ==
    { [i \in DOMAIN l |-> TxnItem(i, 1, l[i][1], l[i][2], l[i][3])] :
        l \in SeqsUpTo(ViewItemValues, MaxViewItems) }

ViewParties ==
    { NoParty, Party(TRUE, "undefined"), Party(TRUE, "Maharashtra"), Party(TRUE, SameState) }

-----------------------------------------------------------------------------
(* Ageing analysis: MemStorage.getReceivablesAgeing / getPayablesAgeing *)

OpenStatuses == {"pending", "overdue", "partially_paid"}

\* mutant: the status is not looked at
IsOpenReceivable_AnyStatus(transaction, userId) ==
    /\ transaction.userId = userId
    /\ transaction.transactionType = "sales_invoice"

\* lines 376-381: the filter of getReceivablesAgeing
IsOpenReceivable(transaction, userId) ==
    /\ transaction.userId = userId
    /\ transaction.transactionType = "sales_invoice"
    /\ transaction.status \in OpenStatuses

\* lines 417-422: the filter of getPayablesAgeing
IsOpenPayable(transaction, userId) ==
    /\ transaction.userId = userId
    /\ transaction.transactionType = "purchase_bill"
    /\ transaction.status \in OpenStatuses

Buckets(current, days1to30, days31to60, days60plus) ==
    [current |-> current, days1to30 |-> days1to30,
     days31to60 |-> days31to60, days60plus |-> days60plus]

\* mutant: the result is kept between calls and not reset
ZeroBuckets_Carried ==
    IF ageing.report = "none" THEN Buckets(Num(0), Num(0), Num(0), Num(0))
    ELSE ageing.buckets

\* lines 383-388: the result before the loop
ZeroBuckets == Buckets(Num(0), Num(0), Num(0), Num(0))

\* a > b on numbers: false when either is NaN
JsGreater(a, b) == a.t = "num" /\ b.t = "num" /\ a.n * b.d > b.n * a.d

\* a <= b and a < b on numbers: false when either is NaN
JsLessEq(a, b) == a.t = "num" /\ b.t = "num" /\ a.n * b.d <= b.n * a.d

JsLess(a, b) == a.t = "num" /\ b.t = "num" /\ a.n * b.d < b.n * a.d

\* new Date(dueDate).getTime() for a Date or the ISO string of one (the same instant),
\* and NaN for a string that is no date
DateTime(dueDate) ==
    CASE dueDate.t = "date" -> Num(dueDate.n)
      [] dueDate.t = "bad"  -> NaN

\* mutant: the distance to the due date, whether it is past or still to come
DiffDays_Absolute(nowInstant, dueDate) ==
    LET due == DateTime(dueDate)
    IN  IF due.t # "num" THEN NaN
        ELSE Num((IF nowInstant >= due.n THEN nowInstant - due.n ELSE due.n - nowInstant)
                     \div SecondsPerDay)

\* line 394: Math.floor((now.getTime() - dueDate.getTime()) / (1000 * 60 * 60 * 24)),
\* NaN for a due date that is no date
DiffDays(nowInstant, dueDate) ==
    LET due == DateTime(dueDate)
    IN  IF due.t # "num" THEN NaN
        ELSE Num((nowInstant - due.n) \div SecondsPerDay)

\* mutant: a due date reached today is already one day late
AgeInto_ZeroIsLate(result, transaction, nowInstant) ==
    IF ~Truthy(transaction.dueDate) THEN result
    ELSE LET diffDays == DiffDays(nowInstant, transaction.dueDate)
             balanceDue == NumberOrZero(transaction.balanceDue)
         IN  IF JsLess(diffDays, Num(0)) THEN [result EXCEPT !.current = JsAdd(@, balanceDue)]
             ELSE IF JsLessEq(diffDays, Num(30)) THEN [result EXCEPT !.days1to30 = JsAdd(@, balanceDue)]
             ELSE IF JsLessEq(diffDays, Num(60)) THEN [result EXCEPT !.days31to60 = JsAdd(@, balanceDue)]
             ELSE [result EXCEPT !.days60plus = JsAdd(@, balanceDue)]

\* mutant: the chain has no final else, so more than 60 days late is counted nowhere
AgeInto_Over60Lost(result, transaction, nowInstant) ==
    IF ~Truthy(transaction.dueDate) THEN result
    ELSE LET diffDays == DiffDays(nowInstant, transaction.dueDate)
             balanceDue == NumberOrZero(transaction.balanceDue)
         IN  IF JsLessEq(diffDays, Num(0)) THEN [result EXCEPT !.current = JsAdd(@, balanceDue)]
             ELSE IF JsLessEq(diffDays, Num(30)) THEN [result EXCEPT !.days1to30 = JsAdd(@, balanceDue)]
             ELSE IF JsLessEq(diffDays, Num(60)) THEN [result EXCEPT !.days31to60 = JsAdd(@, balanceDue)]
             ELSE result

\* lines 390-405 and 431-446: the body of the forEach, for one transaction
AgeInto(result, transaction, nowInstant) ==
    IF ~Truthy(transaction.dueDate) THEN result
    ELSE LET diffDays == DiffDays(nowInstant, transaction.dueDate)
             balanceDue == NumberOrZero(transaction.balanceDue)
         IN  IF JsLessEq(diffDays, Num(0)) THEN [result EXCEPT !.current = JsAdd(@, balanceDue)]
             ELSE IF JsLessEq(diffDays, Num(30)) THEN [result EXCEPT !.days1to30 = JsAdd(@, balanceDue)]
             ELSE IF JsLessEq(diffDays, Num(60)) THEN [result EXCEPT !.days31to60 = JsAdd(@, balanceDue)]
             ELSE [result EXCEPT !.days60plus = JsAdd(@, balanceDue)]

\* the forEach over the open transactions
RECURSIVE AgeAll(_, _, _)
AgeAll(open, result, nowInstant) ==
    IF open = <<>> THEN result
    ELSE AgeAll(Tail(open), AgeInto(result, Head(open), nowInstant), nowInstant)

\* lines 369-408: getReceivablesAgeing(userId) on a transactions map
ReceivablesAgeing(txns, userId, nowInstant) ==
    AgeAll(SelectSeq(MapValues(txns), LAMBDA transaction : IsOpenReceivable(transaction, userId)),
           ZeroBuckets, nowInstant)

\* lines 410-449: getPayablesAgeing(userId) on a transactions map
PayablesAgeing(txns, userId, nowInstant) ==
    AgeAll(SelectSeq(MapValues(txns), LAMBDA transaction : IsOpenPayable(transaction, userId)),
           ZeroBuckets, nowInstant)

Ageing(report, userId, buckets) == [report |-> report, userId |-> userId, buckets |-> buckets]

NoAgeing == Ageing("none", 0, Buckets(Undef, Undef, Undef, Undef))

\* storage.getReceivablesAgeing(userId) is called and answers
GetReceivablesAgeing(userId) ==
    /\ ageing' = Ageing("receivables", userId, ReceivablesAgeing(transactions, userId, now))
    /\ UNCHANGED <<storeVars, now, openSummary, bnplVars, storeCall, badge, requests, sent, view, service>>

\* storage.getPayablesAgeing(userId) is called and answers
GetPayablesAgeing(userId) ==
    /\ ageing' = Ageing("payables", userId, PayablesAgeing(transactions, userId, now))
    /\ UNCHANGED <<storeVars, now, openSummary, bnplVars, storeCall, badge, requests, sent, view, service>>

UserIds == {1, 2}

\* due dates around every bucket boundary, as seconds before the evaluation instant:
\* diffDays is -1, 0, 0, 1, 30, 31, 60 and 61
DueDates ==
    { Date(Now0 + 1), Date(Now0), Date(Now0 - (Days(1) - 1)), Date(Now0 - Days(1)),
      Date(Now0 - (Days(31) - 1)), Date(Now0 - Days(31)),
      Date(Now0 - (Days(61) - 1)), Date(Now0 - Days(61)) }

\* the transactions a store snapshot is made of (id 0: set when it is stored)
SnapshotTransactions ==
    { Txn(0, 1, "sales_invoice", "pending", Str(100), Str(100), d) : d \in DueDates \cup {Null} }
    \cup { Txn(0, 1, "purchase_bill", "pending", Str(40), Str(40), d) : d \in DueDates \cup {Null} }
    \cup { Txn(0, 1, type, status, Str(10), Str(10), Date(Now0 - Days(31))) :
             type \in {"sales_invoice", "purchase_bill"},
             status \in {"overdue", "partially_paid"} }
    \cup { Txn(0, 1, type, status, Str(1000), Str(1000), Date(Now0 - Days(31))) :
             type \in {"sales_invoice", "purchase_bill"},
             status \in {"paid", "cancelled", "using_bnpl", "completed"} }
    \cup { Txn(0, 2, type, "pending", Str(2000), Str(2000), Date(Now0 - Days(31))) :
             type \in {"sales_invoice", "purchase_bill"} }
    \cup { Txn(0, 1, "receipt", "pending", Str(3000), Str(3000), Date(Now0 - Days(31))) }
    \cup { Txn(0, 1, "sales_invoice", "pending", Str(100), b, Date(Now0 - Days(1))) :
             b \in {Null, Undef, Str(0), Num(7), Bad} }

-----------------------------------------------------------------------------
(* Open receivables and payables: MemStorage.getOpenReceivables / getOpenPayables *)

OpenSummary(report, userId, total, count) ==
    [report |-> report, userId |-> userId, total |-> total, count |-> count]

NoOpenSummary == OpenSummary("none", 0, Undef, 0)

\* mutant: a transaction without due date is left out of the total
OpenTotal_DatedOnly(openTransactions) ==
    ReduceAdd([i \in DOMAIN openTransactions |->
                  IF Truthy(openTransactions[i].dueDate)
                  THEN NumberOrZero(openTransactions[i].balanceDue) ELSE Num(0)], Num(0))

\* lines 259 and 271: reduce((sum, transaction) => sum + Number(balanceDue || 0), 0)
OpenTotal(openTransactions) ==
    ReduceAdd([i \in DOMAIN openTransactions |->
                  NumberOrZero(openTransactions[i].balanceDue)], Num(0))

\* lines 263-273: getOpenReceivables(userId)
GetOpenReceivables(userId) ==
    /\ LET openReceivables ==
               SelectSeq(MapValues(transactions),
                         LAMBDA transaction : IsOpenReceivable(transaction, userId))
       IN  openSummary' = OpenSummary("receivables", userId, OpenTotal(openReceivables),
                                      Len(openReceivables))
    /\ UNCHANGED <<storeVars, now, requests, sent, ageing, view, service, bnplVars,
                   storeCall, badge>>

\* lines 251-261: getOpenPayables(userId)
GetOpenPayables(userId) ==
    /\ LET openPayables ==
               SelectSeq(MapValues(transactions),
                         LAMBDA transaction : IsOpenPayable(transaction, userId))
       IN  openSummary' = OpenSummary("payables", userId, OpenTotal(openPayables),
                                      Len(openPayables))
    /\ UNCHANGED <<storeVars, now, requests, sent, ageing, view, service, bnplVars,
                   storeCall, badge>>

-----------------------------------------------------------------------------
(* Record Store: calls made on the store directly *)

\* mutant: { ...updates, ...existing }, the stored values win
MergeUpdates_ExistingWins(existing, updates) == existing @@ updates

\* { ...existing, ...updates }: the keys of updates win, the others stay
MergeUpdates(existing, updates) == updates @@ existing

StoreCall(op, id, outcome, error) ==
    [op |-> op, id |-> id, outcome |-> outcome, error |-> error]

NoStoreCall == StoreCall("none", 0, "none", "")

\* the partial transactions an update carries
TransactionUpdates ==
    { [amount |-> Str(10)],
      [status |-> "paid", balanceDue |-> Str(0)] }

\* the header storage.createTransaction is called with directly
StoreHeaders ==
    { HeaderInput(TRUE, TRUE, TRUE, 2, "purchase_bill", "pending",
                  Str(500), Str(500), Null),
      [id |-> 1] @@ HeaderInput(TRUE, TRUE, TRUE, 2, "purchase_bill", "pending",
                                Str(500), Str(500), Null) }

\* storage.createTransaction(transaction), called on the store
StoreCreateTransaction(header) ==
    /\ transactionIdCounter < FirstTransactionId + MaxPosts
    /\ LET created == NewTransaction(header)
       IN  /\ transactions' = (created.id :> created) @@ transactions
           /\ transactionIdCounter' = transactionIdCounter + 1
           /\ storeCall' = StoreCall("createTransaction", created.id, "returned", "")
    /\ UNCHANGED <<transactionItems, transactionItemIdCounter, now, openSummary, requests, sent,
                   ageing, view, service, bnplVars, badge>>

\* mutant: an id that is not in the store is set to the updates
StoreUpdateTransaction_Upserts(id, updates) ==
    /\ transactions' = (id :> MergeUpdates(GetTransaction(id), updates)) @@ transactions
    /\ storeCall' = StoreCall("updateTransaction", id, "returned", "")
    /\ UNCHANGED <<transactionItems, transactionIdCounter, transactionItemIdCounter, now, openSummary,
                   requests, sent, ageing, view, service, bnplVars, badge>>

\* storage.updateTransaction(id, updates), called on the store
StoreUpdateTransaction(id, updates) ==
    /\ IF id \notin DOMAIN transactions
       THEN /\ storeCall' = StoreCall("updateTransaction", id, "threw",
                                      "Transaction not found")
            /\ UNCHANGED transactions
       ELSE /\ transactions' = [transactions EXCEPT ![id] = MergeUpdates(@, updates)]
            /\ storeCall' = StoreCall("updateTransaction", id, "returned", "")
    /\ UNCHANGED <<transactionItems, transactionIdCounter, transactionItemIdCounter, now, openSummary,
                   requests, sent, ageing, view, service, bnplVars, badge>>

-----------------------------------------------------------------------------
(* Record Store: BNPL limits *)

MaxBnplCreates == 1

BnplLimit(id, userId, partyId, limitType, totalLimit, usedLimit) ==
    [id |-> id, userId |-> userId, partyId |-> partyId, limitType |-> limitType,
     totalLimit |-> totalLimit, usedLimit |-> usedLimit]

\* initializeData: the demo BNPL limits
SeedBnplLimits ==
    <<BnplLimit(1, 1, 2, "purchase", Str(250000), Str(150000)),
      BnplLimit(2, 1, 1, "sales", Str(350000), Str(225000))>>

FirstBnplLimitId == Len(SeedBnplLimits) + 1

\* the limits createBnplLimit is called with (id 0: the caller gives none)
BnplLimitInputs ==
    { BnplLimit(0, 1, 3, "sales", Str(100), Str(50)),
      BnplLimit(0, 1, 3, "purchase", Str(100), Str(500)) }

\* the partial limits updateBnplLimit is called with
BnplLimitUpdates ==
    { [usedLimit |-> Str(300000)],
      [totalLimit |-> Str(400000), usedLimit |-> Str(400000)] }

\* lines 328-334: { ...insertBnplLimit, id, createdAt }
CreateBnplLimit(insertBnplLimit) ==
    /\ bnplLimitIdCounter < FirstBnplLimitId + MaxBnplCreates
    /\ LET id == bnplLimitIdCounter
           bnplLimit == [insertBnplLimit EXCEPT !.id = id]
       IN  /\ bnplLimits' = (id :> bnplLimit) @@ bnplLimits
           /\ bnplLimitIdCounter' = id + 1
           /\ storeCall' = StoreCall("createBnplLimit", id, "returned", "")
    /\ UNCHANGED <<storeVars, now, openSummary, requests, sent, ageing, view, service, badge>>

\* lines 336-345: throws when the id is absent, else { ...bnplLimit, ...updates }
UpdateBnplLimit(id, updates) ==
    /\ IF id \notin DOMAIN bnplLimits
       THEN /\ storeCall' = StoreCall("updateBnplLimit", id, "threw",
                                      "BNPL Limit with id " \o ToString(id) \o " not found")
            /\ UNCHANGED bnplLimits
       ELSE /\ bnplLimits' = [bnplLimits EXCEPT ![id] = MergeUpdates(@, updates)]
            /\ storeCall' = StoreCall("updateBnplLimit", id, "returned", "")
    /\ UNCHANGED <<storeVars, bnplLimitIdCounter, now, openSummary, requests, sent, ageing, view,
                   service, badge>>

-----------------------------------------------------------------------------
(* PUT /transactions/:id: TransactionController.updateTransaction *)

\* insertTransactionSchema.partial().parse(req.body) succeeds
InsertTransactionSchemaPartialOk(body) == body.schemaOk

\* req.body of a PUT: whether the partial schema takes it, and the fields it yields
PutBodies ==
    { [schemaOk |-> TRUE, updates |-> u] : u \in TransactionUpdates }
    \cup { [schemaOk |-> FALSE, updates |-> [status |-> "paid"]] }

\* lines 106-108: the body is parsed and storage.updateTransaction called; the
\* store either throws or stores and returns the merged record
PutReceive(r, id, body) ==
    /\ Free(r)
    /\ LET q == Request("PUT", "PutCalled", id, NoBody, NoTransaction, <<>>,
                        NoTotals, NoResponse)
       IN  IF ~InsertTransactionSchemaPartialOk(body)
           THEN /\ requests' = [requests EXCEPT ![r] = Reject(q)]
                /\ UNCHANGED transactions
           ELSE IF id \notin DOMAIN transactions
           THEN /\ requests' = [requests EXCEPT ![r] = [q EXCEPT !.pc = "PutThrew"]]
                /\ UNCHANGED transactions
           ELSE LET updated == MergeUpdates(transactions[id], body.updates)
                IN  /\ transactions' = [transactions EXCEPT ![id] = updated]
                    /\ requests' = [requests EXCEPT ![r] =
                           [q EXCEPT !.createdTransaction = updated]]
    /\ UNCHANGED <<transactionItems, transactionIdCounter, transactionItemIdCounter, now, openSummary,
                   sent, ageing, view, service, bnplVars, storeCall, badge>>

\* lines 110-120: the await has settled: the catch block answers 400 to an error of
\* the store, a falsy result is answered with 404, a record with 200
PutRespond(r) ==
    /\ requests[r].kind = "PUT" /\ requests[r].pc \in {"PutCalled", "PutThrew"}
    /\ LET q == requests[r]
       IN  requests' = [requests EXCEPT ![r] =
               IF q.pc = "PutThrew" THEN Reject(q)
               ELSE IF q.createdTransaction = NoTransaction
               THEN [q EXCEPT !.pc = "NotFound",
                              !.response = Response(404, NoTransaction, <<>>, NoTotals)]
               ELSE [q EXCEPT !.pc = "Updated",
                              !.response = Response(200, q.createdTransaction, <<>>, NoTotals)]]
    /\ UNCHANGED <<storeVars, now, openSummary, sent, ageing, view, service, bnplVars, storeCall, badge>>

-----------------------------------------------------------------------------
(* StatusBadge: the status a transaction is displayed with *)

\* mutant: the sign of balanceDue is not looked at
DisplayStatus_AnyBalance(status, dueDate, balanceDue, today) ==
    IF Truthy(balanceDue) /\ JsStrictEq(ToNumber(balanceDue), Num(0)) THEN "paid"
    ELSE IF Truthy(balanceDue) /\ Truthy(dueDate)
    THEN IF JsGreater(Num(today), DateTime(dueDate)) THEN "overdue" ELSE status
    ELSE status

\* lines 55-65: displayStatus, with today the instant of new Date()
DisplayStatus(status, dueDate, balanceDue, today) ==
    IF Truthy(balanceDue) /\ JsStrictEq(ToNumber(balanceDue), Num(0)) THEN "paid"
    ELSE IF Truthy(balanceDue) /\ JsGreater(ToNumber(balanceDue), Num(0)) /\ Truthy(dueDate)
    THEN IF JsGreater(Num(today), DateTime(dueDate)) THEN "overdue" ELSE status
    ELSE status

Badge(rendered, id, status, dueDate, balanceDue, today, displayStatus) ==
    [rendered |-> rendered, id |-> id, status |-> status, dueDate |-> dueDate,
     balanceDue |-> balanceDue, today |-> today, displayStatus |-> displayStatus]

NoBadge == Badge(FALSE, 0, "none", Undef, Undef, 0, "none")

\* mutant: the status displayed is written back to the record
StatusBadgeRender_WritesBack(id) ==
    /\ id \in DOMAIN transactions
    /\ LET transaction == transactions[id]
           displayStatus == DisplayStatus(transaction.status, transaction.dueDate,
                                          transaction.balanceDue, now)
       IN  /\ badge' = Badge(TRUE, id, transaction.status, transaction.dueDate,
                             transaction.balanceDue, now, displayStatus)
           /\ transactions' = [transactions EXCEPT ![id].status = displayStatus]
    /\ UNCHANGED <<transactionItems, transactionIdCounter, transactionItemIdCounter, now, openSummary,
                   requests, sent, ageing, view, service, bnplVars, storeCall>>

\* lines 150-154: the view renders the badge of a transaction it was given
StatusBadgeRender(id) ==
    /\ id \in DOMAIN transactions
    /\ LET transaction == transactions[id]
       IN  badge' = Badge(TRUE, id, transaction.status, transaction.dueDate,
                          transaction.balanceDue, now,
                          DisplayStatus(transaction.status, transaction.dueDate,
                                        transaction.balanceDue, now))
    /\ UNCHANGED <<storeVars, now, openSummary, requests, sent, ageing, view, service, bnplVars,
                   storeCall>>

\* the clock moves on to a later instant of the model's time line
Tick(instant) ==
    /\ instant > now
    /\ now' = instant
    /\ UNCHANGED <<storeVars, openSummary, requests, sent, ageing, view, service, bnplVars,
                   storeCall, badge>>

-----------------------------------------------------------------------------
(* The server: the store as constructed, one request at a time *)

SeqToMap(s) == [i \in 1..Len(s) |-> s[i]]

\* new MemStorage(): initializeData
StoreInit ==
    /\ transactions = SeqToMap(SeedTransactions)
    /\ transactionItems = SeqToMap(SeedTransactionItems)
    /\ transactionIdCounter = Len(SeedTransactions) + 1
    /\ transactionItemIdCounter = Len(SeedTransactionItems) + 1
    /\ bnplLimits = SeqToMap(SeedBnplLimits)
    /\ bnplLimitIdCounter = Len(SeedBnplLimits) + 1

Slots == {1}

Init ==
    /\ StoreInit
    /\ now = Now0
    /\ requests = [r \in Slots |-> IdleRequest]
    /\ sent = {}
    /\ ageing = NoAgeing
    /\ view = NoView
    /\ service = NoService
    /\ storeCall = NoStoreCall
    /\ badge = NoBadge
    /\ openSummary = NoOpenSummary

\* the ids a GET names: those in the store, and the first one that is not
GetIds == 1..transactionIdCounter

\* the PUTs the server is sent next to POSTs and GETs: for the first id a POST
\* creates, in the store or not yet, with a body that changes the amount and one
\* the schema refuses
ServerPutIds == {FirstTransactionId}

ServerPutBodies == { body \in PutBodies : body.schemaOk => body.updates = [amount |-> Str(10)] }

Next ==
    \/ \E r \in DOMAIN requests, body \in Bodies : PostReceive(r, body)
    \/ \E r \in DOMAIN requests : PostPersistHeader(r)
    \/ \E r \in DOMAIN requests : PostPersistItem(r)
    \/ \E r \in DOMAIN requests : PostCalculateTotals(r)
    \/ \E r \in DOMAIN requests : PostPatchHeader(r)
    \/ \E r \in DOMAIN requests : PostRespond(r)
    \/ \E r \in DOMAIN requests, id \in GetIds : GetBegin(r, id)
    \/ \E r \in DOMAIN requests : GetItems(r)
    \/ \E r \in DOMAIN requests : GetCalculateTotals(r)
    \/ \E r \in DOMAIN requests : GetRespond(r)
    \/ \E r \in DOMAIN requests : GetTransactions(r)
    \/ \E r \in DOMAIN requests, id \in ServerPutIds, body \in ServerPutBodies :
           PutReceive(r, id, body)
    \/ \E r \in DOMAIN requests : PutRespond(r)

Spec == Init /\ [][Next]_vars

\* The view and the service on item lists: a list of items, a party, and whether
\* the items have arrived
InitTotals ==
    /\ StoreInit
    /\ now = Now0
    /\ requests = [r \in Slots |-> IdleRequest]
    /\ sent = {}
    /\ ageing = NoAgeing
    /\ \E l \in ViewItemLists, party \in ViewParties, loaded \in BOOLEAN :
           /\ loaded \/ l = <<>>
           /\ view = View(FALSE, loaded, l, party, Undef, <<>>)
           /\ service = [called |-> FALSE, items |-> l, totals |-> NoTotals]
    /\ storeCall = NoStoreCall
    /\ badge = NoBadge
    /\ openSummary = NoOpenSummary

NextTotals ==
    \/ ViewRender
    \/ ServiceCalculateTotals

SpecTotals == InitTotals /\ [][NextTotals]_vars

\* The ageing reports on store snapshots: the three records the store is constructed
\* with, each set to any of the snapshot transactions by updateTransaction
InitAgeing ==
    /\ transactions \in
           { [id \in DOMAIN t |-> [t[id] EXCEPT !.id = id]] :
               t \in [1..Len(SeedTransactions) -> SnapshotTransactions] }
    /\ transactionItems = SeqToMap(SeedTransactionItems)
    /\ transactionIdCounter = Len(SeedTransactions) + 1
    /\ transactionItemIdCounter = Len(SeedTransactionItems) + 1
    /\ bnplLimits = SeqToMap(SeedBnplLimits)
    /\ bnplLimitIdCounter = Len(SeedBnplLimits) + 1
    /\ now = Now0
    /\ requests = [r \in Slots |-> IdleRequest]
    /\ sent = {}
    /\ ageing = NoAgeing
    /\ view = NoView
    /\ service = NoService
    /\ storeCall = NoStoreCall
    /\ badge = NoBadge
    /\ openSummary = NoOpenSummary

NextAgeing ==
    \/ \E userId \in UserIds : GetReceivablesAgeing(userId)
    \/ \E userId \in UserIds : GetPayablesAgeing(userId)

SpecAgeing == InitAgeing /\ [][NextAgeing]_vars

\* The PUT handler on the store as constructed
NextPut ==
    \/ \E r \in DOMAIN requests, id \in GetIds, body \in PutBodies : PutReceive(r, id, body)
    \/ \E r \in DOMAIN requests : PutRespond(r)

SpecPut == Init /\ [][NextPut]_vars

\* Calls of createTransaction and updateTransaction on the store as constructed
NextStore ==
    \/ \E header \in StoreHeaders : StoreCreateTransaction(header)
    \/ \E id \in GetIds, updates \in TransactionUpdates : StoreUpdateTransaction(id, updates)

SpecStore == Init /\ [][NextStore]_vars

\* the ids an updateBnplLimit names: those in the store, and the first one that is not
BnplLimitIds == 1..bnplLimitIdCounter

\* Calls of createBnplLimit and updateBnplLimit on the store as constructed
NextBnpl ==
    \/ \E insertBnplLimit \in BnplLimitInputs : CreateBnplLimit(insertBnplLimit)
    \/ \E id \in BnplLimitIds, updates \in BnplLimitUpdates : UpdateBnplLimit(id, updates)

SpecBnpl == Init /\ [][NextBnpl]_vars

\* the instants a badge is rendered at: midnight of day 100, noon, and the next midnight
BadgeInstants == {Now0, Now0 + (SecondsPerDay \div 2), Now0 + SecondsPerDay}

\* due dates around the calendar day of the evaluation instants, none, and a string
\* that is no date
BadgeDueDates ==
    { Null, Bad, Date(Now0 - SecondsPerDay), Date(Now0 - 1), Date(Now0),
      Date(Now0 + (SecondsPerDay - 1)), Date(Now0 + SecondsPerDay),
      Date(Now0 + Days(2)) }

\* balances: numerals, the number 0 the patch of a transaction without items stores,
\* absent ones and a malformed one
BadgeBalances == { Str(0), Num(0), Str(100), Num(118), Str(-5), Null, Undef, Bad }

BadgeTransactions ==
    { Txn(1, 1, "sales_invoice", status, Str(100), balanceDue, dueDate) :
        status \in {"pending", "overdue", "paid"},
        balanceDue \in BadgeBalances, dueDate \in BadgeDueDates }

\* The badge on store snapshots: the first record the store is constructed with is
\* set to any of the badge transactions by updateTransaction
InitBadge ==
    /\ \E t \in BadgeTransactions :
           transactions = [SeqToMap(SeedTransactions) EXCEPT ![1] = t]
    /\ transactionItems = SeqToMap(SeedTransactionItems)
    /\ transactionIdCounter = Len(SeedTransactions) + 1
    /\ transactionItemIdCounter = Len(SeedTransactionItems) + 1
    /\ bnplLimits = SeqToMap(SeedBnplLimits)
    /\ bnplLimitIdCounter = Len(SeedBnplLimits) + 1
    /\ now = Now0
    /\ requests = [r \in Slots |-> IdleRequest]
    /\ sent = {}
    /\ ageing = NoAgeing
    /\ view = NoView
    /\ service = NoService
    /\ storeCall = NoStoreCall
    /\ badge = NoBadge
    /\ openSummary = NoOpenSummary

NextBadge ==
    \/ \E id \in DOMAIN transactions : StatusBadgeRender(id)
    \/ \E instant \in BadgeInstants : Tick(instant)

SpecBadge == InitBadge /\ [][NextBadge]_vars

\* the open transactions shown and aged together: due 45 days ago (the example), a
\* day ago, a second ago, now, within a day, in two days, and without due date
LatenessDueDates ==
    { Null, Date(Now0 - Days(45)), Date(Now0 - Days(61)), Date(Now0 - SecondsPerDay),
      Date(Now0 - 1), Date(Now0), Date(Now0 + (SecondsPerDay - 1)), Date(Now0 + Days(2)) }

LatenessTransactions ==
    { Txn(1, 1, type, status, Str(18750), balanceDue, dueDate) :
        type \in {"sales_invoice", "purchase_bill"},
        status \in OpenStatuses,
        balanceDue \in {Str(18750), Str(100)},
        dueDate \in LatenessDueDates }

\* The badge and the ageing reports on the same store: the first record the store
\* is constructed with is set to any of the lateness transactions
InitLateness ==
    /\ \E t \in LatenessTransactions :
           transactions = [SeqToMap(SeedTransactions) EXCEPT ![1] = t]
    /\ transactionItems = SeqToMap(SeedTransactionItems)
    /\ transactionIdCounter = Len(SeedTransactions) + 1
    /\ transactionItemIdCounter = Len(SeedTransactionItems) + 1
    /\ bnplLimits = SeqToMap(SeedBnplLimits)
    /\ bnplLimitIdCounter = Len(SeedBnplLimits) + 1
    /\ now = Now0
    /\ requests = [r \in Slots |-> IdleRequest]
    /\ sent = {}
    /\ ageing = NoAgeing
    /\ view = NoView
    /\ service = NoService
    /\ storeCall = NoStoreCall
    /\ badge = NoBadge
    /\ openSummary = NoOpenSummary

NextLateness ==
    \/ \E id \in DOMAIN transactions : StatusBadgeRender(id)
    \/ \E instant \in BadgeInstants : Tick(instant)
    \/ GetReceivablesAgeing(1)
    \/ GetPayablesAgeing(1)

SpecLateness == InitLateness /\ [][NextLateness]_vars

\* The open summaries and the ageing reports on store snapshots: the first two
\* records the store is constructed with are set to any of the snapshot transactions
InitOpen ==
    /\ transactions \in
           { [id \in DOMAIN SeedTransactions |->
                 IF id \in DOMAIN t THEN [t[id] EXCEPT !.id = id] ELSE SeedTransactions[id]] :
               t \in [1..2 -> SnapshotTransactions] }
    /\ transactionItems = SeqToMap(SeedTransactionItems)
    /\ transactionIdCounter = Len(SeedTransactions) + 1
    /\ transactionItemIdCounter = Len(SeedTransactionItems) + 1
    /\ bnplLimits = SeqToMap(SeedBnplLimits)
    /\ bnplLimitIdCounter = Len(SeedBnplLimits) + 1
    /\ now = Now0
    /\ requests = [r \in Slots |-> IdleRequest]
    /\ sent = {}
    /\ ageing = NoAgeing
    /\ view = NoView
    /\ service = NoService
    /\ storeCall = NoStoreCall
    /\ badge = NoBadge
    /\ openSummary = NoOpenSummary

NextOpen ==
    \/ \E userId \in UserIds : GetReceivablesAgeing(userId)
    \/ \E userId \in UserIds : GetPayablesAgeing(userId)
    \/ \E userId \in UserIds : GetOpenReceivables(userId)
    \/ \E userId \in UserIds : GetOpenPayables(userId)

SpecOpen == InitOpen /\ [][NextOpen]_vars

\* the bodies posted while another request runs: two items under a header that says
\* amount "999", and one item under a header without amounts
ConcurrentBodies ==
    { [transaction |-> HeaderInput(TRUE, TRUE, TRUE, 1, "sales_invoice", "pending",
                                   Str(999), Str(0), Date(Now0 - Days(45))),
       items |-> [kind |-> "array",
                  list |-> <<ItemInput(TRUE, 1, Str(100), Str(18), Str(18)),
                             ItemInput(TRUE, 0, Str(45000), Str(5), Str(2250))>>]],
      [transaction |-> HeaderInput(TRUE, TRUE, TRUE, 1, "sales_invoice", "pending",
                                   Undef, Undef, Date(Now0 - Days(45))),
       items |-> [kind |-> "array",
                  list |-> <<ItemInput(TRUE, 0, Str(45000), Str(5), Str(2250))>>]] }

ConcurrentSlots == {1, 2}

\* the id a concurrent GET names: the first one a POST creates, once it is stored
ConcurrentGetIds == {FirstTransactionId} \cap DOMAIN transactions

\* The server with two requests in flight, interleaving at their awaits
InitConcurrent ==
    /\ StoreInit
    /\ now = Now0
    /\ requests = [r \in ConcurrentSlots |-> IdleRequest]
    /\ sent = {}
    /\ ageing = NoAgeing
    /\ view = NoView
    /\ service = NoService
    /\ storeCall = NoStoreCall
    /\ badge = NoBadge
    /\ openSummary = NoOpenSummary

NextConcurrent ==
    \/ \E r \in DOMAIN requests, body \in ConcurrentBodies : PostReceive(r, body)
    \/ \E r \in DOMAIN requests : PostPersistHeader(r)
    \/ \E r \in DOMAIN requests : PostPersistItem(r)
    \/ \E r \in DOMAIN requests : PostCalculateTotals(r)
    \/ \E r \in DOMAIN requests : PostPatchHeader(r)
    \/ \E r \in DOMAIN requests : PostRespond(r)
    \/ \E r \in DOMAIN requests, id \in ConcurrentGetIds : GetBegin(r, id)
    \/ \E r \in DOMAIN requests : GetItems(r)
    \/ \E r \in DOMAIN requests : GetCalculateTotals(r)
    \/ \E r \in DOMAIN requests : GetRespond(r)
    \/ \E r \in DOMAIN requests : GetTransactions(r)
    \/ \E r \in DOMAIN requests, id \in ServerPutIds, body \in ServerPutBodies :
           PutReceive(r, id, body)
    \/ \E r \in DOMAIN requests : PutRespond(r)

SpecConcurrent == InitConcurrent /\ [][NextConcurrent]_vars

\* a step of a running POST handler: the await it stands at settles
PostContinue ==
    \E r \in DOMAIN requests :
        \/ PostPersistHeader(r)
        \/ PostPersistItem(r)
        \/ PostCalculateTotals(r)
        \/ PostPatchHeader(r)
        \/ PostRespond(r)

\* the bodies posted to the server whose handlers are followed to their end: those
\* whose header, when valid, carries the caller's amount and balanceDue
LiveBodies ==
    { body \in Bodies :
        body.transaction \in ValidHeaderInputs => body.transaction.amount = Str(999) }

NextLive ==
    \/ \E r \in DOMAIN requests, body \in LiveBodies : PostReceive(r, body)
    \/ \E r \in DOMAIN requests : PostPersistHeader(r)
    \/ \E r \in DOMAIN requests : PostPersistItem(r)
    \/ \E r \in DOMAIN requests : PostCalculateTotals(r)
    \/ \E r \in DOMAIN requests : PostPatchHeader(r)
    \/ \E r \in DOMAIN requests : PostRespond(r)
    \/ \E r \in DOMAIN requests, id \in GetIds : GetBegin(r, id)
    \/ \E r \in DOMAIN requests : GetItems(r)
    \/ \E r \in DOMAIN requests : GetCalculateTotals(r)
    \/ \E r \in DOMAIN requests : GetRespond(r)
    \/ \E r \in DOMAIN requests : GetTransactions(r)
    \/ \E r \in DOMAIN requests, id \in ServerPutIds, body \in ServerPutBodies :
           PutReceive(r, id, body)
    \/ \E r \in DOMAIN requests : PutRespond(r)

\* The server, every await of a POST handler settling eventually
SpecLive == Init /\ [][NextLive]_vars /\ WF_vars(PostContinue)

-----------------------------------------------------------------------------
(* Reference arithmetic for the properties: decimal fields as integers *)

\* the value of a decimal field; an absent or malformed one counts as 0
DecimalValue(x) == IF x.t \in {"str", "num"} /\ x.d = 1 THEN x.n ELSE 0

RECURSIVE SumInts(_)
SumInts(s) == IF s = <<>> THEN 0 ELSE Head(s) + SumInts(Tail(s))

SumAmount(items) == SumInts([i \in DOMAIN items |-> DecimalValue(items[i].amount)])

SumTaxAmount(items) == SumInts([i \in DOMAIN items |-> DecimalValue(items[i].taxAmount)])

Range(s) == {s[i] : i \in DOMAIN s}

-----------------------------------------------------------------------------
(* Properties of POST and GET /transactions, under Spec *)

PostIn(r, pc) == requests[r].kind = "POST" /\ requests[r].pc = pc

GetIn(r, pc) == requests[r].kind = "GET" /\ requests[r].pc = pc

\* C1: once a POST /transactions is Finalized (201), the header stored under the new
\* id has amount = balanceDue = the grand total (sum of amount plus sum of taxAmount)
\* of the items stored for that id, whatever the caller put in the header.
C1_FinalizedHeaderIsGrandTotal ==
    \A r \in DOMAIN requests :
        PostIn(r, "Finalized") =>
            LET id == requests[r].response.header.id
                stored == GetTransactionItemsByTransactionId(id)
                grandTotal == Num(SumAmount(stored) + SumTaxAmount(stored))
            IN  /\ requests[r].response.status = 201
                /\ id \in DOMAIN transactions
                /\ transactions[id].amount = grandTotal
                /\ transactions[id].balanceDue = grandTotal

\* C1 witness: a request whose header said amount "999", balanceDue "0" is Finalized
\* with two items, and the stored header holds 100 + 18 + 45000 + 2250.
C1_Witness ==
    \E r \in DOMAIN requests :
        /\ PostIn(r, "Finalized")
        /\ requests[r].response.header.amount = Str(999)
        /\ requests[r].response.header.balanceDue = Str(0)
        /\ Len(requests[r].createdItems) = 2
        /\ transactions[requests[r].response.header.id].amount = Num(47368)
        /\ transactions[requests[r].response.header.id].balanceDue = Num(47368)

\* C2: a POST /transactions that ends Rejected (400) has written nothing: neither a
\* header nor an item of that request is in the Record Store.
C2_RejectedWroteNothing ==
    \A r \in DOMAIN requests :
        PostIn(r, "Rejected") =>
            /\ requests[r].response.status = 400
            /\ requests[r].createdTransaction.id \notin DOMAIN transactions
            /\ \A i \in DOMAIN transactionItems :
                   transactionItems[i] \notin Range(requests[r].createdItems)

\* C3: a GET /transactions/:id for the id of a Finalized POST answers exactly the
\* items submitted, in order, each with transactionId = id, and totals.grandTotal =
\* their sum, whatever else the store holds.
C3_GetReturnsSubmittedItems ==
    \A r \in DOMAIN requests :
        GetIn(r, "Responded") =>
            \A f \in sent :
                f.id = requests[r].id =>
                    LET response == requests[r].response
                    IN  /\ response.status = 200
                        /\ Len(response.items) = Len(f.submitted)
                        /\ \A i \in DOMAIN response.items :
                               /\ response.items[i].transactionId = f.id
                               /\ response.items[i].amount = f.submitted[i].amount
                               /\ response.items[i].taxRate = f.submitted[i].taxRate
                               /\ response.items[i].taxAmount = f.submitted[i].taxAmount
                        /\ response.totals.grandTotal =
                               Num(SumAmount(f.submitted) + SumTaxAmount(f.submitted))

\* C3 witness: a GET answers the first of two Finalized POSTs, which had two items,
\* after the second one was created.
C3_Witness ==
    \E r \in DOMAIN requests, f, g \in sent :
        /\ GetIn(r, "Responded")
        /\ f.id = requests[r].id /\ f.id < g.id
        /\ Len(f.submitted) = 2 /\ Len(g.submitted) >= 1
        /\ Len(requests[r].response.items) = 2
        /\ requests[r].response.totals.grandTotal = Num(47368)

-----------------------------------------------------------------------------
(* Properties of the totals and of the tax split, under SpecTotals *)

\* a decimal field that is a numeral or absent, not a malformed string
WellFormed(x) == x.t \in {"str", "null", "undef"}

\* C4: calculateTotals returns subtotal = sum of amount, totalTax = sum of taxAmount
\* and grandTotal = subtotal + totalTax, all 0 for no items; the view's
\* totalTaxAmount is the sum of taxAmount too (every taxAmount a numeral or absent).
C4_TotalsAreSums ==
    /\ service.called =>
           /\ service.totals.subtotal = Num(SumAmount(service.items))
           /\ service.totals.totalTax = Num(SumTaxAmount(service.items))
           /\ service.totals.grandTotal =
                  Num(SumAmount(service.items) + SumTaxAmount(service.items))
           /\ service.items = <<>> => service.totals = Totals(Num(0), Num(0), Num(0))
    /\ (view.rendered /\ \A i \in DOMAIN view.items : WellFormed(view.items[i].taxAmount)) =>
           view.totalTaxAmount = Num(SumTaxAmount(view.items))

\* C4 witness: both have run on two items with different amounts and taxes, and on
\* no items at all.
C4_Witness ==
    /\ service.called /\ view.rendered /\ view.loaded
    /\ Len(service.items) = 2
    /\ service.totals = Totals(Num(45100), Num(2259), Num(47359))
    /\ view.totalTaxAmount = Num(2259)

\* the items of a group: those whose taxRate, absent counting as 0, is the group's rate
GroupItems(items, rate) ==
    SelectSeq(items, LAMBDA item :
        WellFormed(item.taxRate) /\ rate.t = "num" /\ rate.d = 1
            /\ DecimalValue(item.taxRate) = rate.n)

\* C5: in every group of the tax split, taxableAmount is the sum of amount and total
\* the sum of taxAmount of the group's items, igst + cgst + sgst = total, cgst = sgst.
C5_GroupSums ==
    view.rendered =>
        \A k \in DOMAIN view.gstBreakup :
            LET g == view.gstBreakup[k]
                members == GroupItems(view.items, g.rate)
            IN  /\ g.taxableAmount = Num(SumAmount(members))
                /\ g.total = Num(SumTaxAmount(members))
                /\ JsAdd(JsAdd(g.igst, g.cgst), g.sgst) = g.total
                /\ g.cgst = g.sgst

\* C5 witness: an intra-state split of two items at 18%, one with tax 9 and one with
\* a malformed tax: the group's total is 9 and each half 4.5.
C5_Witness ==
    /\ view.rendered /\ ~IsIGST(view.party)
    /\ \E k \in DOMAIN view.gstBreakup :
           /\ view.gstBreakup[k].rate = Num(18)
           /\ view.gstBreakup[k].taxableAmount = Num(200)
           /\ view.gstBreakup[k].total = Num(9)
           /\ view.gstBreakup[k].cgst = [t |-> "num", n |-> 9, d |-> 2]

\* the spec's example: one item, 45000 at 5% with tax 2250
ExampleItems == <<TxnItem(1, 1, Str(45000), Str(5), Str(2250))>>

\* C6: unless the party's state is exactly "Same State as User", every group has
\* igst = its tax and cgst = sgst = 0 (a missing party or state included); with that
\* state igst = 0 and cgst = sgst = half its tax. The example gives one group
\* {5, 45000, 2250, 0, 0, 2250} for a party in Maharashtra.
C6_Jurisdiction ==
    view.rendered =>
        /\ \A k \in DOMAIN view.gstBreakup :
               LET g == view.gstBreakup[k]
                   groupTax == Num(SumTaxAmount(GroupItems(view.items, g.rate)))
               IN  IF view.party.present /\ view.party.state = SameState
                   THEN /\ g.igst = Num(0)
                        /\ g.cgst = g.sgst
                        /\ JsAdd(g.cgst, g.sgst) = groupTax
                   ELSE /\ g.igst = groupTax
                        /\ g.cgst = Num(0) /\ g.sgst = Num(0)
        /\ (view.items = ExampleItems /\ view.party = Party(TRUE, "Maharashtra")) =>
               view.gstBreakup =
                   <<GstGroup(Num(5), Num(45000), Num(2250), Num(0), Num(0), Num(2250))>>

\* C6 witness: the example has been rendered for a party in Maharashtra.
C6_Witness ==
    /\ view.rendered /\ view.loaded
    /\ view.items = ExampleItems
    /\ view.party = Party(TRUE, "Maharashtra")
    /\ Len(view.gstBreakup) = 1

-----------------------------------------------------------------------------
(* Properties of the ageing reports, under SpecAgeing *)

\* a report has been returned
Reported == ageing.report # "none"

\* the transactions a report is about, as the spec words it
Eligible(transaction, report, userId) ==
    /\ transaction.userId = userId
    /\ transaction.transactionType =
           (IF report = "receivables" THEN "sales_invoice" ELSE "purchase_bill")
    /\ transaction.status \in {"pending", "overdue", "partially_paid"}

\* the eligible transactions of the returned report that have a due date
EligibleDated ==
    SelectSeq(MapValues(transactions), LAMBDA transaction :
        Eligible(transaction, ageing.report, ageing.userId) /\ transaction.dueDate.t = "date")

\* no balanceDue among them is a malformed string
BalancesNumeric ==
    \A i \in DOMAIN EligibleDated : EligibleDated[i].balanceDue.t # "bad"

SumBalanceDue(txns) == SumInts([i \in DOMAIN txns |-> DecimalValue(txns[i].balanceDue)])

\* the time elapsed since the due date, negative for a future one
Elapsed(transaction) == now - transaction.dueDate.n

\* the balance of those of EligibleDated late by at least lo and less than hi days
LateBetween(lo, hi) ==
    Num(SumBalanceDue(SelectSeq(EligibleDated, LAMBDA transaction :
            Days(lo) <= Elapsed(transaction) /\ Elapsed(transaction) < Days(hi))))

\* C8: an eligible transaction with a due date adds its balanceDue to current when
\* less than one whole day has passed since the due date (diffDays <= 0, a future
\* date included), to days1to30 from 1 to 30 whole days, to days31to60 from 31 to 60,
\* and to days60plus beyond.
C8_BucketsByWholeDays ==
    (Reported /\ BalancesNumeric) =>
        /\ ageing.buckets.current = LateBetween(-1000, 1)
        /\ ageing.buckets.days1to30 = LateBetween(1, 31)
        /\ ageing.buckets.days31to60 = LateBetween(31, 61)
        /\ ageing.buckets.days60plus = LateBetween(61, 1000)

\* C8 witness: a receivables report over three invoices due exactly now, 30 days and
\* 23:59:59 ago, and 61 days ago.
C8_Witness ==
    /\ ageing.report = "receivables" /\ ageing.userId = 1
    /\ transactions[1] = Txn(1, 1, "sales_invoice", "pending", Str(100), Str(100), Date(Now0))
    /\ transactions[2] = Txn(2, 1, "sales_invoice", "pending", Str(100), Str(100),
                             Date(Now0 - (Days(31) - 1)))
    /\ transactions[3] = Txn(3, 1, "sales_invoice", "pending", Str(100), Str(100),
                             Date(Now0 - Days(61)))
    /\ ageing.buckets = Buckets(Num(100), Num(100), Num(0), Num(100))

BucketNames == {"current", "days1to30", "days31to60", "days60plus"}

\* C9: the four buckets add up to the balanceDue of the eligible transactions that
\* have a due date; each of those goes to exactly one bucket, and one without a due
\* date to none.
C9_BucketsPartition ==
    Reported =>
        /\ BalancesNumeric =>
               JsAdd(JsAdd(ageing.buckets.current, ageing.buckets.days1to30),
                     JsAdd(ageing.buckets.days31to60, ageing.buckets.days60plus))
                   = Num(SumBalanceDue(EligibleDated))
        /\ \A id \in DOMAIN transactions :
               Eligible(transactions[id], ageing.report, ageing.userId) =>
                   LET own == AgeInto(ZeroBuckets, transactions[id], now)
                   IN  IF transactions[id].dueDate.t = "date"
                       THEN \E b \in BucketNames :
                                own = [ZeroBuckets EXCEPT
                                          ![b] = NumberOrZero(transactions[id].balanceDue)]
                       ELSE own = ZeroBuckets

\* C9 witness: a payables report over a bill 61 days late, a bill due in the future
\* and a bill without due date: 40 + 40, the third in no bucket.
C9_Witness ==
    /\ ageing.report = "payables" /\ ageing.userId = 1
    /\ transactions[1].transactionType = "purchase_bill"
    /\ transactions[1].dueDate = Date(Now0 - Days(61))
    /\ transactions[2].transactionType = "purchase_bill"
    /\ transactions[2].dueDate = Date(Now0 + 1)
    /\ transactions[3].transactionType = "purchase_bill"
    /\ transactions[3].dueDate = Null
    /\ ageing.buckets = Buckets(Num(40), Num(0), Num(0), Num(40))

\* the store without one transaction
Without(id) == [k \in DOMAIN transactions \ {id} |-> transactions[k]]

\* the returned report, computed on another transactions map
ReportOn(txns) ==
    IF ageing.report = "receivables" THEN ReceivablesAgeing(txns, ageing.userId, now)
    ELSE PayablesAgeing(txns, ageing.userId, now)

\* C10: a transaction of another owner, of another type or with a status other than
\* pending, overdue, partially_paid changes no bucket of a report; no transaction is
\* counted by both reports; with nothing eligible the four buckets are 0.
C10_OnlyEligibleCounted ==
    Reported =>
        /\ \A id \in DOMAIN transactions :
               ~Eligible(transactions[id], ageing.report, ageing.userId) =>
                   ReportOn(Without(id)) = ageing.buckets
        /\ \A id \in DOMAIN transactions, userId \in UserIds :
               ~(IsOpenReceivable(transactions[id], userId)
                   /\ IsOpenPayable(transactions[id], userId))
        /\ (\A id \in DOMAIN transactions :
               ~Eligible(transactions[id], ageing.report, ageing.userId)) =>
               ageing.buckets = ZeroBuckets

\* C10 witness: a receivables report of user 1 over a paid invoice, an invoice of
\* user 2 and a pending bill, all 31 days late: every bucket is 0.
C10_Witness ==
    /\ ageing.report = "receivables" /\ ageing.userId = 1
    /\ transactions[1].status = "paid" /\ transactions[1].transactionType = "sales_invoice"
    /\ transactions[2].userId = 2 /\ transactions[2].transactionType = "sales_invoice"
    /\ transactions[3].transactionType = "purchase_bill" /\ transactions[3].status = "pending"
    /\ transactions[3].dueDate = Date(Now0 - Days(31))
    /\ ageing.buckets = ZeroBuckets

\* a numeric field that is absent or malformed, read as 0
AsZero(x) == IF x.t \in {"null", "undef", "bad"} THEN Str(0) ELSE x

ItemsAsZero(items) ==
    [i \in DOMAIN items |-> [items[i] EXCEPT !.amount = AsZero(@), !.taxRate = AsZero(@),
                                             !.taxAmount = AsZero(@)]]

TransactionsAsZero == [id \in DOMAIN transactions |-> [transactions[id] EXCEPT !.balanceDue = AsZero(@)]]

\* C7: absent or malformed amount, taxAmount, taxRate and balanceDue count as 0: the
\* totals, the tax groups and the ageing buckets are those of the same records with
\* 0 in these fields.
C7_MalformedCountsAsZero ==
    /\ Reported => ageing.buckets = ReportOn(TransactionsAsZero)
    /\ view.rendered =>
           /\ view.totalTaxAmount = TotalTaxAmount(view.loaded, ItemsAsZero(view.items))
           /\ view.gstBreakup =
                  CalculateGstBreakup(view.loaded, ItemsAsZero(view.items), view.party)
    /\ service.called => service.totals = CalculateTotals(ItemsAsZero(service.items))

\* C11: a report is a function of the stored transactions, the userId and the instant
\* only: whatever reports were asked before, the buckets returned are those computed
\* afresh on the store; asking the same report again for the same userId at the same
\* instant returns equal buckets; and no call changes a record or a counter of the
\* store.
C11_AgeingDeterministicReadOnly ==
    /\ [](Reported => ageing.buckets = ReportOn(transactions))
    /\ [][/\ transactions' = transactions
          /\ transactionItems' = transactionItems
          /\ transactionIdCounter' = transactionIdCounter
          /\ transactionItemIdCounter' = transactionItemIdCounter
          /\ (/\ Reported
              /\ ageing'.report = ageing.report
              /\ ageing'.userId = ageing.userId
              /\ now' = now) => ageing'.buckets = ageing.buckets]_vars

\* C11 witness: a payables report of user 1 with 40 in current and 40 in days60plus
\* has been returned on a store that also holds a pending invoice.
C11_Witness ==
    /\ ageing.report = "payables" /\ ageing.userId = 1
    /\ ageing.buckets = Buckets(Num(40), Num(0), Num(0), Num(40))
    /\ transactions[3].transactionType = "sales_invoice"
    /\ transactions[3].status = "pending"
    /\ transactions[3].balanceDue = Str(100)

-----------------------------------------------------------------------------
(* Properties of the store calls and of PUT /transactions/:id *)

\* a decimal field that holds a number
Numeric(x) == x.t \in {"str", "num"} /\ x.d = 1

\* C12: every stored transaction whose amount and balanceDue are numbers has
\* balanceDue <= amount.
C12_BalanceDueAtMostAmount ==
    \A id \in DOMAIN transactions :
        (Numeric(transactions[id].amount) /\ Numeric(transactions[id].balanceDue)) =>
            DecimalValue(transactions[id].balanceDue) <= DecimalValue(transactions[id].amount)

\* C13: every stored BNPL limit has usedLimit <= totalLimit.
C13_UsedLimitAtMostTotalLimit ==
    \A id \in DOMAIN bnplLimits :
        DecimalValue(bnplLimits[id].usedLimit) <= DecimalValue(bnplLimits[id].totalLimit)

\* C14: updateTransaction called on the store with an id that is not stored throws
\* "Transaction not found", adds no record, takes no id and leaves every stored
\* transaction as it was.
C14_UpdateOfAbsentIdThrows ==
    [][(/\ storeCall' # storeCall
        /\ storeCall'.op = "updateTransaction"
        /\ storeCall'.id \notin DOMAIN transactions) =>
           /\ storeCall'.outcome = "threw"
           /\ storeCall'.error = "Transaction not found"
           /\ transactions' = transactions
           /\ transactionIdCounter' = transactionIdCounter]_vars

\* C14 witness: after an update of transaction 1 that was stored, an update of id 4,
\* which is not in the store, has thrown, and the three records are still there.
C14_Witness ==
    /\ storeCall = StoreCall("updateTransaction", 4, "threw", "Transaction not found")
    /\ DOMAIN transactions = {1, 2, 3}
    /\ transactions[1].amount = Str(10)
    /\ transactions[2] = SeedTransactions[2]

\* C15: a PUT whose body the partial schema takes is answered 200 with the updated
\* record when the id is stored and 404 when it is not.
C15_PutAnswers200Or404 ==
    [][\A r \in DOMAIN requests :
           (/\ requests[r].kind = "PUT"
            /\ requests[r].pc \in {"PutCalled", "PutThrew"}
            /\ requests'[r] # requests[r]) =>
               IF requests[r].id \in DOMAIN transactions
               THEN /\ requests'[r].response.status = 200
                    /\ requests'[r].response.header = transactions[requests[r].id]
               ELSE requests'[r].response.status = 404]_vars

-----------------------------------------------------------------------------
(* Properties of the status badge, under SpecBadge *)

\* the calendar day an instant falls on
CalendarDay(instant) == instant \div SecondsPerDay

\* C16: a badge whose balanceDue is present and numerically 0 displays "paid",
\* whatever the stored status and the due date.
C16_ZeroBalanceIsPaid ==
    (badge.rendered /\ Numeric(badge.balanceDue) /\ DecimalValue(badge.balanceDue) = 0) =>
        badge.displayStatus = "paid"

\* C17: a badge with balanceDue > 0 (and a stored status other than "overdue")
\* displays "overdue" exactly when the due date falls on a calendar day before
\* today's; a due date on today's calendar day, at any time of day, does not.
C17_OverdueByCalendarDate ==
    (/\ badge.rendered
     /\ Numeric(badge.balanceDue) /\ DecimalValue(badge.balanceDue) > 0
     /\ badge.status # "overdue") =>
        (badge.displayStatus = "overdue" <=>
            /\ badge.dueDate.t = "date"
            /\ CalendarDay(badge.dueDate.n) < CalendarDay(badge.today))

\* C18: rendering a badge changes no record and no counter of the store, the record
\* displayed keeps the status, dueDate and balanceDue the badge was given, and two
\* renderings with the same props at the same instant display the same status.
C18_BadgeIsPureProjection ==
    /\ [](badge.rendered =>
            /\ transactions[badge.id].status = badge.status
            /\ transactions[badge.id].dueDate = badge.dueDate
            /\ transactions[badge.id].balanceDue = badge.balanceDue)
    /\ [][/\ transactions' = transactions
          /\ transactionItems' = transactionItems
          /\ bnplLimits' = bnplLimits
          /\ (/\ badge.rendered /\ badge'.rendered
              /\ badge'.status = badge.status
              /\ badge'.dueDate = badge.dueDate
              /\ badge'.balanceDue = badge.balanceDue
              /\ badge'.today = badge.today) =>
                 badge'.displayStatus = badge.displayStatus]_vars

\* C18 witness: at noon a pending transaction with balanceDue "100" that was due the
\* day before is displayed as "overdue", and its record still says "pending".
C18_Witness ==
    /\ badge.rendered /\ badge.id = 1
    /\ badge.today = Now0 + (SecondsPerDay \div 2)
    /\ badge.displayStatus = "overdue"
    /\ transactions[1].status = "pending"
    /\ transactions[1].balanceDue = Str(100)
    /\ transactions[1].dueDate = Date(Now0 - SecondsPerDay)

-----------------------------------------------------------------------------
(* Properties of the course of a POST /transactions *)

\* the states of a POST handler that is still running, and those it ends in
PostRunning == {"Received", "HeaderPersisted", "ItemsPersisted", "Patched"}

PostTerminal == {"Finalized", "Rejected"}

\* C19: a POST has sent no response while it runs, has sent 201 with the header, the
\* items and their totals when Finalized and 400 when Rejected; a response once sent
\* is never replaced by another one of the same request; and every running POST
\* reaches Finalized or Rejected.
C19_PostEndsWithOneResponse ==
    /\ [](\A r \in Slots :
            requests[r].kind = "POST" =>
                /\ requests[r].pc \in PostRunning \cup PostTerminal
                /\ requests[r].pc \in PostRunning => requests[r].response = NoResponse
                /\ requests[r].pc = "Rejected" => requests[r].response.status = 400
                /\ requests[r].pc = "Finalized" =>
                       /\ requests[r].response.status = 201
                       /\ requests[r].response.header = requests[r].createdTransaction
                       /\ requests[r].response.items = requests[r].createdItems
                       /\ Len(requests[r].response.items) = Len(LoopItems(requests[r]))
                       /\ requests[r].response.totals =
                              CalculateTotals(requests[r].createdItems))
    /\ [][\A r \in Slots :
            (/\ requests[r].kind = "POST"
             /\ requests[r].response # NoResponse
             /\ requests'[r] # requests[r]) =>
                \/ requests'[r].kind # "POST"
                \/ requests'[r].createdTransaction = NoTransaction]_vars
    /\ \A r \in Slots :
           (requests[r].kind = "POST" /\ requests[r].pc \in PostRunning)
               ~> (requests[r].kind = "POST" /\ requests[r].pc \in PostTerminal)

\* C19 witness: a POST has been Rejected by an invalid second item after its header
\* and its first item were written.
C19_Witness ==
    \E r \in DOMAIN requests :
        /\ PostIn(r, "Rejected")
        /\ requests[r].response.status = 400
        /\ requests[r].createdTransaction.id \in DOMAIN transactions
        /\ Len(requests[r].createdItems) = 1

\* the items stored for a transaction are the first k of a list, in its order
StoredArePrefix(id, list, k) ==
    LET stored == GetTransactionItemsByTransactionId(id)
    IN  /\ Len(stored) = k /\ k <= Len(list)
        /\ \A i \in 1..k :
               /\ stored[i].amount = list[i].amount
               /\ stored[i].taxRate = list[i].taxRate
               /\ stored[i].taxAmount = list[i].taxAmount
        /\ \A i, j \in 1..k : i < j => stored[i].id < stored[j].id

\* C20: within one POST the header is inserted first, when no item of the new id is
\* stored; each item is then written in the order given, under the new header's id
\* whatever transactionId the caller gave it, while the header is still as inserted;
\* and an existing header is changed once only, by the patch, after all items of the
\* request are stored.
C20_WritesInOrder ==
    [][\A r \in DOMAIN requests :
          (requests[r].kind = "POST" /\ requests[r].pc \in PostRunning) =>
              LET q == requests[r]
                  id == q.createdTransaction.id
                  newId == transactionIdCounter
              IN  /\ transactionItems' # transactionItems =>
                         /\ q.pc = "HeaderPersisted"
                         /\ id \in DOMAIN transactions
                         /\ transactions' = transactions
                         /\ transactions[id] = q.createdTransaction
                         /\ StoredArePrefix(id, LoopItems(q), Len(q.createdItems))
                         /\ DOMAIN transactionItems' =
                                DOMAIN transactionItems \cup {transactionItemIdCounter}
                         /\ transactionItems'[transactionItemIdCounter].transactionId = id
                         /\ transactionItems'[transactionItemIdCounter].amount =
                                LoopItems(q)[Len(q.createdItems) + 1].amount
                         /\ \A i \in DOMAIN transactionItems :
                                transactionItems'[i] = transactionItems[i]
                  /\ transactions' # transactions =>
                         /\ transactionItems' = transactionItems
                         /\ \/ /\ q.pc = "Received"
                               /\ DOMAIN transactions' = DOMAIN transactions \cup {newId}
                               /\ newId \notin DOMAIN transactions
                               /\ GetTransactionItemsByTransactionId(newId) = <<>>
                               /\ \A k \in DOMAIN transactions :
                                      transactions'[k] = transactions[k]
                            \/ /\ q.pc = "ItemsPersisted"
                               /\ requests'[r].pc = "Patched"
                               /\ StoredArePrefix(id, LoopItems(q), Len(LoopItems(q)))
                               /\ transactions[id] = q.createdTransaction
                               /\ transactions' = [transactions EXCEPT
                                      ![id].amount = q.totals.grandTotal,
                                      ![id].balanceDue = q.totals.grandTotal]]_vars

\* C20 witness: a header has been patched after its two items were written, the
\* first of which the caller had given the transactionId 1.
C20_Witness ==
    \E r \in DOMAIN requests :
        /\ PostIn(r, "Patched")
        /\ Len(LoopItems(requests[r])) = 2
        /\ LoopItems(requests[r])[1].transactionId = 1
        /\ requests[r].createdTransaction.id > Len(SeedTransactions)
        /\ StoredArePrefix(requests[r].createdTransaction.id, LoopItems(requests[r]), 2)
        /\ transactions[requests[r].createdTransaction.id].amount = Num(47368)

-----------------------------------------------------------------------------
(* Properties of a POST /transactions that fails part-way *)

\* C21: when the k-th item of a POST fails, the request answers 400 and the store is
\* left as it was at that moment: the header with the caller's amount and balanceDue,
\* never patched, and the k-1 items written before, in the order given; no further
\* item of the request is written.
C21_ItemFailureLeavesPartialWrite ==
    /\ [](\A r \in Slots :
            (PostIn(r, "Rejected") /\ requests[r].createdTransaction # NoTransaction) =>
                LET q == requests[r]
                    id == q.createdTransaction.id
                IN  /\ q.response.status = 400
                    /\ id \in DOMAIN transactions
                    /\ transactions[id] = q.createdTransaction
                    /\ GetTransactionItemsByTransactionId(id) = q.createdItems)
    /\ [][\A r \in Slots :
            (PostIn(r, "HeaderPersisted") /\ requests'[r].pc = "Rejected") =>
                LET q == requests[r]
                    id == q.createdTransaction.id
                    k == Len(q.createdItems) + 1
                IN  /\ ~InsertTransactionItemSchemaOk(LoopItems(q)[k])
                    /\ transactions' = transactions
                    /\ transactionItems' = transactionItems
                    /\ transactions[id].amount = q.body.transaction.amount
                    /\ transactions[id].balanceDue = q.body.transaction.balanceDue
                    /\ StoredArePrefix(id, LoopItems(q), k - 1)
                    /\ requests'[r].createdItems = q.createdItems
                    /\ requests'[r].response.status = 400]_vars

\* C21 witness: the second item of a POST failed: the request is Rejected, its header
\* is stored with the caller's amount "999" and balanceDue "0", and its first item,
\* 45000 at 5%, is the only item stored under the header's id.
C21_Witness ==
    \E r \in DOMAIN requests :
        /\ PostIn(r, "Rejected")
        /\ requests[r].createdTransaction.id \in DOMAIN transactions
        /\ transactions[requests[r].createdTransaction.id].amount = Str(999)
        /\ transactions[requests[r].createdTransaction.id].balanceDue = Str(0)
        /\ Len(GetTransactionItemsByTransactionId(requests[r].createdTransaction.id)) = 1
        /\ GetTransactionItemsByTransactionId(requests[r].createdTransaction.id)[1].amount
               = Str(45000)

-----------------------------------------------------------------------------
(* Properties of requests that interleave, under SpecConcurrent *)

\* the grand total of the items stored for a transaction
StoredGrandTotal(id) ==
    Num(SumAmount(GetTransactionItemsByTransactionId(id))
        + SumTaxAmount(GetTransactionItemsByTransactionId(id)))

\* the header stored under an id is this record, or this record as a PUT of the
\* server's has updated it
StoredOrPut(id, record) ==
    \/ transactions[id] = record
    \/ \E body \in ServerPutBodies :
           body.schemaOk /\ transactions[id] = MergeUpdates(record, body.updates)

\* the header of a POST as inserted, and as its patch leaves it
AsInserted(q) ==
    [q.createdTransaction EXCEPT !.amount = q.body.transaction.amount,
                                 !.balanceDue = q.body.transaction.balanceDue]

AsPatched(q, grandTotal) ==
    [q.createdTransaction EXCEPT !.amount = grandTotal, !.balanceDue = grandTotal]

\* C22: from the header insert up to the patch the store holds the header with the
\* caller's amount and balanceDue (or the amount of a concurrent PUT) and the items
\* written so far, which may be fewer than those submitted; the patch sets amount
\* and balanceDue to the grand total of the stored items, which are all those
\* submitted, and from then on the header is as patched unless a PUT updates it.
C22_HeaderProvisionalUntilPatched ==
    /\ [](\A r \in ConcurrentSlots :
            (requests[r].kind = "POST" /\ requests[r].createdTransaction # NoTransaction) =>
                LET q == requests[r]
                    id == q.createdTransaction.id
                IN  /\ q.pc \in {"HeaderPersisted", "ItemsPersisted"} =>
                           /\ StoredOrPut(id, AsInserted(q))
                           /\ StoredArePrefix(id, LoopItems(q), Len(q.createdItems))
                    /\ q.pc \in {"Patched", "Finalized"} =>
                           /\ StoredOrPut(id, AsPatched(q, StoredGrandTotal(id)))
                           /\ StoredArePrefix(id, LoopItems(q), Len(LoopItems(q))))
    /\ [][\A r \in ConcurrentSlots :
            (PostIn(r, "ItemsPersisted") /\ requests'[r].pc = "Patched") =>
                LET id == requests[r].createdTransaction.id
                IN  /\ transactions'[id].amount = StoredGrandTotal(id)
                    /\ transactions'[id].balanceDue = StoredGrandTotal(id)
                    /\ transactionItems' = transactionItems]_vars

\* C22 witness: while a POST of two items has written its header and its first item,
\* a GET of the new id has answered the header with the caller's amount "999" and
\* one item, and a receivables report would count the caller's balanceDue "0".
C22_Witness ==
    \E r, g \in DOMAIN requests :
        /\ PostIn(r, "HeaderPersisted")
        /\ Len(LoopItems(requests[r])) = 2 /\ Len(requests[r].createdItems) = 1
        /\ GetIn(g, "Responded")
        /\ requests[g].id = requests[r].createdTransaction.id
        /\ requests[g].response.header.amount = Str(999)
        /\ requests[g].response.header.amount # StoredGrandTotal(requests[g].id)
        /\ Len(requests[g].response.items) = 1
        /\ ReceivablesAgeing(transactions, 1, now).days31to60 = Num(0)

\* C27: requests that interleave have different transaction ids; every item a
\* request has written carries that request's id and the items stored under an id
\* are those of its request, in order; every finalized request's header has amount
\* and balanceDue equal to the grand total of the items that request submitted,
\* unless a PUT has updated it since.
C27_InterleavedPostsKeepApart ==
    /\ \A r1, r2 \in DOMAIN requests :
           (/\ r1 # r2
            /\ requests[r1].kind = "POST" /\ requests[r2].kind = "POST"
            /\ requests[r1].createdTransaction # NoTransaction
            /\ requests[r2].createdTransaction # NoTransaction) =>
               requests[r1].createdTransaction.id # requests[r2].createdTransaction.id
    /\ \A r \in DOMAIN requests :
           (requests[r].kind = "POST" /\ requests[r].createdTransaction # NoTransaction) =>
               /\ \A i \in DOMAIN requests[r].createdItems :
                      requests[r].createdItems[i].transactionId =
                          requests[r].createdTransaction.id
               /\ GetTransactionItemsByTransactionId(requests[r].createdTransaction.id) =
                      requests[r].createdItems
    /\ \A f \in sent :
           /\ StoredArePrefix(f.id, f.submitted, Len(f.submitted))
           /\ StoredOrPut(f.id,
                  [f.response.header EXCEPT
                      !.amount = Num(SumAmount(f.submitted) + SumTaxAmount(f.submitted)),
                      !.balanceDue = Num(SumAmount(f.submitted) + SumTaxAmount(f.submitted))])
    /\ \A f, g \in sent : f # g => f.id # g.id

\* C27 witness: two POSTs are Finalized whose item writes alternated: the one item of
\* the second request was written between the two items of the first.
C27_Witness ==
    \E r1, r2 \in DOMAIN requests :
        /\ PostIn(r1, "Finalized") /\ PostIn(r2, "Finalized")
        /\ Len(requests[r1].createdItems) = 2 /\ Len(requests[r2].createdItems) = 1
        /\ requests[r1].createdItems[1].id < requests[r2].createdItems[1].id
        /\ requests[r2].createdItems[1].id < requests[r1].createdItems[2].id
        /\ transactions[requests[r1].createdTransaction.id].amount = Num(47368)
        /\ transactions[requests[r2].createdTransaction.id].amount = Num(47250)

-----------------------------------------------------------------------------
(* Properties of the grouping of the tax split, under SpecTotals *)

\* every decimal field of every item is a numeral or absent
ItemsWellFormed(items) ==
    \A i \in DOMAIN items :
        /\ WellFormed(items[i].amount)
        /\ WellFormed(items[i].taxRate)
        /\ WellFormed(items[i].taxAmount)

\* the distinct tax rates among the items, an absent rate being the rate 0
RateValues(items) == {DecimalValue(items[i].taxRate) : i \in DOMAIN items}

\* C23: for items whose decimal fields are numerals or absent, the tax split has
\* exactly one group per distinct taxRate (none for no items), every item's rate is
\* the rate of exactly one group, the groups' taxableAmount sum to the subtotal and
\* their total to totalTax, and every reordering of the items gives the same groups.
C23_OneGroupPerRate ==
    (view.rendered /\ view.loaded /\ ItemsWellFormed(view.items)) =>
        LET groups == view.gstBreakup
            items == view.items
        IN  /\ Len(groups) = Cardinality(RateValues(items))
            /\ {groups[k].rate : k \in DOMAIN groups} = {Num(v) : v \in RateValues(items)}
            /\ items = <<>> => groups = <<>>
            /\ \A i \in DOMAIN items :
                   Cardinality({k \in DOMAIN groups :
                       groups[k].rate = Num(DecimalValue(items[i].taxRate))}) = 1
            /\ ReduceAdd([k \in DOMAIN groups |-> groups[k].taxableAmount], Num(0)) =
                   CalculateTotals(items).subtotal
            /\ ReduceAdd([k \in DOMAIN groups |-> groups[k].total], Num(0)) =
                   CalculateTotals(items).totalTax
            /\ \A p \in Permutations(DOMAIN items) :
                   Range(CalculateGstBreakup(TRUE, [i \in DOMAIN items |-> items[p[i]]],
                                             view.party)) = Range(groups)

\* C23 witness: two items at 5% with different amounts have been split into the one
\* group of rate 5 with taxableAmount 45100 and total 2268.
C23_Witness ==
    /\ view.rendered /\ view.loaded /\ ItemsWellFormed(view.items)
    /\ Len(view.items) = 2
    /\ RateValues(view.items) = {5}
    /\ Len(view.gstBreakup) = 1
    /\ view.gstBreakup[1].taxableAmount = Num(45100)
    /\ view.gstBreakup[1].total = Num(2268)

-----------------------------------------------------------------------------
(* Properties of the badge's remaining cases, under SpecBadge *)

\* C24: a badge whose balanceDue is not a number equal to 0, and that is not one with
\* balanceDue > 0 and a due instant before the instant of rendering (so balanceDue
\* null, absent, negative or no number, dueDate null or no date, or a due instant
\* not before the rendering), displays the stored status unchanged.
C24_ElseStoredStatus ==
    badge.rendered =>
        LET zero == Numeric(badge.balanceDue) /\ DecimalValue(badge.balanceDue) = 0
            late == /\ Numeric(badge.balanceDue) /\ DecimalValue(badge.balanceDue) > 0
                    /\ badge.dueDate.t = "date"
                    /\ badge.dueDate.n < badge.today
        IN  (~zero /\ ~late) => badge.displayStatus = badge.status

\* C24 witness: a pending transaction with the negative balanceDue "-5" that was due
\* the day before is displayed as "pending".
C24_Witness ==
    /\ badge.rendered
    /\ badge.balanceDue = Str(-5)
    /\ badge.dueDate = Date(Now0 - SecondsPerDay)
    /\ badge.today > Now0
    /\ badge.status = "pending"
    /\ badge.displayStatus = "pending"

-----------------------------------------------------------------------------
(* Properties of the badge and the ageing reports together, under SpecLateness *)

\* the badge and the report were evaluated at the instant now, and the transaction
\* of the badge is one the report is about, with balanceDue > 0
SameInstant ==
    /\ badge.rendered /\ Reported
    /\ badge.today = now
    /\ ageing.buckets = ReportOn(transactions)
    /\ Eligible(transactions[badge.id], ageing.report, ageing.userId)
    /\ Numeric(badge.balanceDue) /\ DecimalValue(badge.balanceDue) > 0

\* the report counts the transaction of the badge in this bucket
PlacedIn(bucket) == ageing.buckets[bucket] # ReportOn(Without(badge.id))[bucket]

PlacedLate == PlacedIn("days1to30") \/ PlacedIn("days31to60") \/ PlacedIn("days60plus")

\* every transaction the report places in a late bucket is displayed "overdue"
LateIsOverdue == (SameInstant /\ PlacedLate) => badge.displayStatus = "overdue"

\* the example: due 45 days ago, balanceDue "18750", status "pending"
LatenessExample ==
    (/\ SameInstant
     /\ badge.status = "pending" /\ badge.balanceDue = Str(18750)
     /\ badge.dueDate = Date(now - Days(45))) =>
        /\ PlacedIn("days31to60") /\ ~PlacedIn("current")
        /\ ~PlacedIn("days1to30") /\ ~PlacedIn("days60plus")
        /\ badge.displayStatus = "overdue"

\* C25 as stated: a transaction in a late bucket is displayed "overdue", and one
\* displayed "overdue" is in a late bucket and not in current.
C25_LatenessAgrees ==
    /\ LateIsOverdue
    /\ (SameInstant /\ badge.displayStatus = "overdue") =>
           (PlacedLate /\ ~PlacedIn("current"))
    /\ LatenessExample

\* C25 amended: a transaction in a late bucket is displayed "overdue"; one displayed
\* "overdue" is in a late bucket unless its stored status is "overdue" already or it
\* was due less than a whole day ago, which the report counts in current.
C25_LateIsOverdueNotConversely ==
    /\ LateIsOverdue
    /\ (SameInstant /\ badge.displayStatus = "overdue") =>
           \/ PlacedLate /\ ~PlacedIn("current")
           \/ badge.status = "overdue"
           \/ /\ badge.dueDate.t = "date"
              /\ 0 < now - badge.dueDate.n /\ now - badge.dueDate.n < SecondsPerDay
              /\ PlacedIn("current") /\ ~PlacedLate
    /\ LatenessExample

\* C25 witness: a pending invoice with balanceDue "18750" that was due a second ago is
\* displayed "overdue" while the receivables report of the same instant has its
\* 18750 in current.
C25_Witness ==
    /\ SameInstant
    /\ ageing.report = "receivables"
    /\ badge.status = "pending" /\ badge.balanceDue = Str(18750)
    /\ badge.dueDate = Date(now - 1)
    /\ badge.displayStatus = "overdue"
    /\ ageing.buckets.current = Num(18750)
    /\ ageing.buckets.days1to30 = Num(0)

-----------------------------------------------------------------------------
(* The header a POST answers and the header the store keeps, under Spec *)

\* C26: the 201 response of a POST carries the header as first inserted, with the
\* caller's amount and balanceDue, while the stored header has amount and balanceDue
\* equal to the response's totals.grandTotal; the stored header stays so until a PUT
\* of that id, and a GET answers the header as stored.
C26_ResponseHeaderAsInserted ==
    /\ [](\A r \in Slots :
            PostIn(r, "Finalized") =>
                LET q == requests[r]
                IN  /\ q.response.status = 201
                    /\ q.response.header.amount = q.body.transaction.amount
                    /\ q.response.header.balanceDue = q.body.transaction.balanceDue
                    /\ transactions[q.response.header.id] =
                           AsPatched(q, q.response.totals.grandTotal)
                    /\ q.response.header.amount # q.response.totals.grandTotal)
    /\ [](\A r \in Slots :
            (GetIn(r, "Responded") /\ requests[r].id \in DOMAIN transactions) =>
                requests[r].response.header = transactions[requests[r].id])
    /\ [][\A f \in sent :
            transactions'[f.id] # transactions[f.id] =>
                \E r \in Slots :
                    /\ requests'[r] # requests[r]
                    /\ requests'[r].kind = "PUT" /\ requests'[r].id = f.id]_vars

\* C26 witness: a POST with the caller's amount "999" and two items was answered 201
\* with amount "999", and the GET that followed answers amount 47368.
C26_Witness ==
    \E r \in DOMAIN requests, f \in sent :
        /\ GetIn(r, "Responded") /\ f.id = requests[r].id
        /\ f.response.status = 201
        /\ f.response.header.amount = Str(999)
        /\ f.response.header.balanceDue = Str(0)
        /\ f.response.totals.grandTotal = Num(47368)
        /\ requests[r].response.header.amount = Num(47368)
        /\ requests[r].response.header.balanceDue = Num(47368)

-----------------------------------------------------------------------------
(* Properties of the ids the store assigns, under SpecStore *)

\* C28: in every state each transaction and each item is stored under its own id;
\* every create (a step that moves the id counter of a kind) adds a record under an
\* id greater than every id of that kind in the store, the seeded records included,
\* and leaves every record stored before as it was.
C28_StoreIdsFresh ==
    /\ [](/\ \A k \in DOMAIN transactions : transactions[k].id = k
          /\ \A k \in DOMAIN transactionItems : transactionItems[k].id = k)
    /\ [][/\ transactionIdCounter' # transactionIdCounter =>
                 /\ \A k \in DOMAIN transactions :
                        k \in DOMAIN transactions' /\ transactions'[k] = transactions[k]
                 /\ \E new \in DOMAIN transactions' \ DOMAIN transactions :
                        \A k \in DOMAIN transactions : k < new
          /\ transactionItemIdCounter' # transactionItemIdCounter =>
                 /\ \A k \in DOMAIN transactionItems :
                        k \in DOMAIN transactionItems'
                            /\ transactionItems'[k] = transactionItems[k]
                 /\ \E new \in DOMAIN transactionItems' \ DOMAIN transactionItems :
                        \A k \in DOMAIN transactionItems : k < new]_vars

-----------------------------------------------------------------------------
(* Properties of updateTransaction as a merge, under SpecStore *)

\* C29: a call of updateTransaction on an id in the store that returns leaves that
\* transaction with the values of the fields named in the updates and with every
\* other field, id and createdAt included, as it was; every other transaction, every
\* item and both id counters are unchanged.
C29_UpdateIsFieldwiseMerge ==
    [][(/\ storeCall'.op = "updateTransaction" /\ storeCall'.outcome = "returned"
        /\ <<transactions, storeCall>>' # <<transactions, storeCall>>) =>
           LET id == storeCall'.id
           IN  /\ id \in DOMAIN transactions
               /\ DOMAIN transactions' = DOMAIN transactions
               /\ DOMAIN transactions'[id] = DOMAIN transactions[id]
               /\ \E updates \in TransactionUpdates :
                      /\ \A f \in DOMAIN updates : transactions'[id][f] = updates[f]
                      /\ \A f \in DOMAIN transactions[id] \ DOMAIN updates :
                             transactions'[id][f] = transactions[id][f]
               /\ transactions'[id].id = id
               /\ transactions'[id].createdAt = transactions[id].createdAt
               /\ \A k \in DOMAIN transactions \ {id} : transactions'[k] = transactions[k]
               /\ transactionItems' = transactionItems
               /\ transactionIdCounter' = transactionIdCounter
               /\ transactionItemIdCounter' = transactionItemIdCounter]_vars

\* C29 witness: updateTransaction(2, {status: "paid", balanceDue: "0"}) has returned:
\* transaction 2 has the two new values and its seeded amount, type and due date,
\* and transactions 1 and 3 are as seeded.
C29_Witness ==
    /\ storeCall = StoreCall("updateTransaction", 2, "returned", "")
    /\ transactions[2] = [SeedTransactions[2] EXCEPT !.status = "paid", !.balanceDue = Str(0)]
    /\ transactions[2].amount = Str(18750)
    /\ transactions[1] = SeedTransactions[1]
    /\ transactions[3] = SeedTransactions[3]

-----------------------------------------------------------------------------
(* Properties of the open summaries against the ageing reports, under SpecOpen *)

\* the eligible transactions of the returned report, with or without due date
EligibleAll ==
    SelectSeq(MapValues(transactions), LAMBDA transaction :
        Eligible(transaction, ageing.report, ageing.userId))

\* those of them that have no due date
EligibleUndated ==
    SelectSeq(EligibleAll, LAMBDA transaction : transaction.dueDate.t # "date")

\* C30: for the same userId and store, with every eligible balanceDue a number or
\* absent, the total of getOpenReceivables is the sum of the four buckets of
\* getReceivablesAgeing plus the balanceDue of the eligible transactions without due
\* date, and its count is the number of eligible transactions, dated or not; the
\* same holds of getOpenPayables and getPayablesAgeing.
C30_OpenTotalIsBucketsPlusUndated ==
    (/\ Reported
     /\ openSummary.report = ageing.report
     /\ openSummary.userId = ageing.userId
     /\ \A i \in DOMAIN EligibleAll : EligibleAll[i].balanceDue.t # "bad") =>
        /\ openSummary.total =
               JsAdd(JsAdd(JsAdd(ageing.buckets.current, ageing.buckets.days1to30),
                           JsAdd(ageing.buckets.days31to60, ageing.buckets.days60plus)),
                     Num(SumBalanceDue(EligibleUndated)))
        /\ openSummary.count = Len(EligibleAll)
        /\ openSummary.count = Len(EligibleDated) + Len(EligibleUndated)

\* C30 witness: user 1 has one invoice without due date and one 61 days late, both
\* with balanceDue "100": the summary has total 200 and count 2, the report has 100
\* in days60plus and nothing elsewhere.
C30_Witness ==
    /\ openSummary = OpenSummary("receivables", 1, Num(200), 2)
    /\ ageing = Ageing("receivables", 1, Buckets(Num(0), Num(0), Num(0), Num(100)))
    /\ Len(EligibleUndated) = 1

====
